---- MODULE Spec2Model ----
(***************************************************************************)
(* A model of the reward-pool staking program (src/src/state.rs,           *)
(* src/src/processor.rs, src/src/instruction.rs).                          *)
(*                                                                         *)
(* u64 and i64 values are kept at their full width.  TLC's own integers    *)
(* are 32 bits wide, so a u64 is a little-endian sequence of base-10^4     *)
(* limbs without leading zero limbs (0 is <<>>), and an i64 is a sign and  *)
(* such a magnitude.  Every checked_* operation of the source is computed  *)
(* on these values against the true u64::MAX, i64::MIN and i64::MAX.       *)
(***************************************************************************)
EXTENDS Integers, Sequences, FiniteSets, TLC

VARIABLES
    pool_data,   \* the Pool record held in each pool account
    user_data,   \* the StakeUser record held in each stake user account
    token_data,  \* the token service's accounts and mints
    clock,       \* the clock sysvar's unix_timestamp
    last,        \* the latest successful invocation, with the calls it made
    acc,         \* update_reward_owed applied to drawn inputs
    cod          \* the record codec applied to drawn values

vars == <<pool_data, user_data, token_data, clock, last, acc, cod>>

(***************************************************************************)
(* Unsigned arithmetic on limb sequences.                                  *)
(***************************************************************************)
BASE == 10000

\* The largest divisor for which limb-by-limb division stays within TLC's
\* integers: (d - 1) * BASE + (BASE - 1) < 2^31.
SHORT_DIV_MAX == 200000

RECURSIVE N(_)
N(k) == IF k = 0 THEN <<>> ELSE <<k % BASE>> \o N(k \div BASE)

RECURSIVE NCmpAt(_, _, _)
NCmpAt(a, b, i) ==
    IF i = 0 THEN 0
    ELSE IF a[i] < b[i] THEN -1
    ELSE IF a[i] > b[i] THEN 1
    ELSE NCmpAt(a, b, i - 1)

NCmp(a, b) ==
    IF Len(a) < Len(b) THEN -1
    ELSE IF Len(a) > Len(b) THEN 1
    ELSE NCmpAt(a, b, Len(a))

NLe(a, b) == NCmp(a, b) <= 0

NLt(a, b) == NCmp(a, b) < 0

Limb(a, i) == IF i <= Len(a) THEN a[i] ELSE 0

RECURSIVE Trim(_)
Trim(a) ==
    IF a # <<>> /\ a[Len(a)] = 0 THEN Trim(SubSeq(a, 1, Len(a) - 1)) ELSE a

RECURSIVE NAddAt(_, _, _, _)
NAddAt(a, b, i, c) ==
    IF i > Len(a) /\ i > Len(b)
    THEN IF c = 0 THEN <<>> ELSE <<c>>
    ELSE LET x == Limb(a, i) + Limb(b, i) + c
         IN  <<x % BASE>> \o NAddAt(a, b, i + 1, x \div BASE)

NAdd(a, b) == NAddAt(a, b, 1, 0)

RECURSIVE NSubAt(_, _, _, _)
NSubAt(a, b, i, c) ==
    IF i > Len(a) THEN <<>>
    ELSE LET x == a[i] - Limb(b, i) - c
         IN  IF x < 0 THEN <<x + BASE>> \o NSubAt(a, b, i + 1, 1)
             ELSE <<x>> \o NSubAt(a, b, i + 1, 0)

\* a - b for b <= a
NSub(a, b) == Trim(NSubAt(a, b, 1, 0))

RECURSIVE NMulLimbAt(_, _, _, _)
NMulLimbAt(a, k, i, c) ==
    IF i > Len(a) THEN IF c = 0 THEN <<>> ELSE <<c>>
    ELSE LET x == a[i] * k + c
         IN  <<x % BASE>> \o NMulLimbAt(a, k, i + 1, x \div BASE)

NShift(a) == IF a = <<>> THEN <<>> ELSE <<0>> \o a

RECURSIVE NMul(_, _)
NMul(a, b) ==
    IF a = <<>> \/ b = <<>> THEN <<>>
    ELSE NAdd(NMulLimbAt(a, Head(b), 1, 0), NShift(NMul(a, Tail(b))))

\* The value of a limb sequence known to be below 10^8.
NSmall(a) == Limb(a, 1) + BASE * Limb(a, 2)

\* Division by a small divisor d, most significant limb first.
RECURSIVE NShortDivAt(_, _, _, _)
NShortDivAt(a, d, i, rem) ==
    IF i = 0 THEN [q |-> <<>>, r |-> N(rem)]
    ELSE LET x == rem * BASE + a[i]
             t == NShortDivAt(a, d, i - 1, x % d)
         IN  [q |-> t.q \o <<x \div d>>, r |-> t.r]

NMulLimb(a, k) == IF k = 0 THEN <<>> ELSE NMulLimbAt(a, k, 1, 0)

\* The largest q <= qh with q * b <= cur.
RECURSIVE NQuotFix(_, _, _)
NQuotFix(cur, b, qh) ==
    IF NLe(NMulLimb(b, qh), cur) THEN qh ELSE NQuotFix(cur, b, qh - 1)

\* Schoolbook division by a divisor b whose top limb is at least BASE / 2:
\* limbs a[i], ..., a[1] are still to be brought down and rem < b.
RECURSIVE NSchoolDivAt(_, _, _, _)
NSchoolDivAt(a, b, i, rem) ==
    IF i = 0 THEN [q |-> <<>>, r |-> rem]
    ELSE LET cur == Trim(<<a[i]>> \o rem)
             n == Len(b)
             top == IF Len(cur) > n THEN cur[n + 1] * BASE + cur[n]
                    ELSE IF Len(cur) = n THEN cur[n]
                    ELSE 0
             qh == top \div b[n]
             q == NQuotFix(cur, b, IF qh > BASE - 1 THEN BASE - 1 ELSE qh)
             t == NSchoolDivAt(a, b, i - 1, NSub(cur, NMulLimb(b, q)))
         IN  [q |-> t.q \o <<q>>, r |-> t.r]

\* Quotient and remainder of a by b, for b # 0.  A large divisor is first
\* scaled by f so that its top limb is at least BASE / 2.
NDivMod(a, b) ==
    IF Len(b) <= 2 /\ NSmall(b) <= SHORT_DIV_MAX
    THEN LET t == NShortDivAt(a, NSmall(b), Len(a), 0)
         IN  [q |-> Trim(t.q), r |-> t.r]
    ELSE LET f == BASE \div (b[Len(b)] + 1)
             af == NMulLimb(a, f)
             t == NSchoolDivAt(af, NMulLimb(b, f), Len(af), <<>>)
         IN  [q |-> Trim(t.q), r |-> Trim(NShortDivAt(t.r, f, Len(t.r), 0).q)]

NDiv(a, b) == NDivMod(a, b).q

(***************************************************************************)
(* u64 and i64 (UnixTimestamp) and their checked operations.               *)
(***************************************************************************)
\* u64::MAX = 18446744073709551615
U64_MAX == <<1615, 955, 737, 6744, 1844>>

\* i64::MAX = 9223372036854775807, and the magnitude of i64::MIN
I64_MAX_MAG == <<5807, 5477, 368, 3372, 922>>

I64_MIN_MAG == <<5808, 5477, 368, 3372, 922>>

IsU64(a) == NLe(a, U64_MAX)

\* Option<T>
Some(x) == [some |-> TRUE, v |-> x]

None == [some |-> FALSE]

\* An i64 from a sign and a magnitude; zero is never negative.
MkI64(neg, mag) == [neg |-> neg /\ mag # <<>>, mag |-> mag]

I(k) == IF k < 0 THEN MkI64(TRUE, N(0 - k)) ELSE MkI64(FALSE, N(k))

I64_MAX == MkI64(FALSE, I64_MAX_MAG)

I64_MIN == MkI64(TRUE, I64_MIN_MAG)

IsI64(x) == IF x.neg THEN NLe(x.mag, I64_MIN_MAG) ELSE NLe(x.mag, I64_MAX_MAG)

\* x > 0
IPos(x) == ~x.neg /\ x.mag # <<>>

\* x <= y
ILe(x, y) ==
    IF x.neg /\ ~y.neg THEN TRUE
    ELSE IF ~x.neg /\ y.neg THEN FALSE
    ELSE IF x.neg THEN NLe(y.mag, x.mag)
    ELSE NLe(x.mag, y.mag)

\* The mathematical difference x - y.
ISubExact(x, y) ==
    IF x.neg # y.neg THEN MkI64(x.neg, NAdd(x.mag, y.mag))
    ELSE IF NLe(y.mag, x.mag) THEN MkI64(x.neg, NSub(x.mag, y.mag))
    ELSE MkI64(~x.neg, NSub(y.mag, x.mag))

u64_checked_add(a, b) ==
    LET s == NAdd(a, b) IN IF IsU64(s) THEN Some(s) ELSE None

u64_checked_sub(a, b) ==
    IF NLe(b, a) THEN Some(NSub(a, b)) ELSE None

\* A multiplication that wraps modulo 2^64 instead of failing.
u64_wrapping_mul(a, b) ==
    Some(NDivMod(NMul(a, b), NAdd(U64_MAX, <<1>>)).r)

\* A multiplication that saturates at u64::MAX instead of failing.
u64_saturating_mul(a, b) ==
    LET p == NMul(a, b) IN IF IsU64(p) THEN Some(p) ELSE Some(U64_MAX)

u64_checked_mul(a, b) ==
    LET p == NMul(a, b) IN IF IsU64(p) THEN Some(p) ELSE None

\* A division that rounds up.
u64_div_ceil(a, b) ==
    IF b = <<>> THEN None ELSE Some(NDiv(NAdd(a, NSub(b, <<1>>)), b))

u64_checked_div(a, b) ==
    IF b = <<>> THEN None ELSE Some(NDiv(a, b))

\* A subtraction that does not detect overflow.
i64_unchecked_sub(x, y) == Some(ISubExact(x, y))

i64_checked_sub(x, y) ==
    LET d == ISubExact(x, y) IN IF IsI64(d) THEN Some(d) ELSE None

\* u64::try_from(i64)
u64_try_from(x) == IF x.neg THEN None ELSE Some(x.mag)

DAILY_TS == 86400

(***************************************************************************)
(* state.rs: the StakeUser record and its methods.  A method on &mut self  *)
(* yields its result and self as it is when the method returns.            *)
(***************************************************************************)
Ret(res, self) == [res |-> res, self |-> self]

\* StakeUser::default()
DefaultStakeUser ==
    [is_initialized |-> FALSE, owner |-> "default", pool_pubkey |-> "default",
     stake_amount |-> <<>>, reward_owed |-> <<>>, last_update |-> I(0)]

init(self, params) ==
    [self EXCEPT !.is_initialized = TRUE,
                 !.pool_pubkey = params.pool_pubkey,
                 !.owner = params.owner]

\* stake whose addition wraps around 2^64.
stake_wrapping(self, amount) ==
    Ret("Ok", [self EXCEPT !.stake_amount =
                   NDivMod(NAdd(self.stake_amount, amount), NAdd(U64_MAX, <<1>>)).r])

stake(self, amount) ==
    LET sum == u64_checked_add(self.stake_amount, amount)
    IN  IF ~sum.some THEN Ret("CalculationFailure", self)
        ELSE Ret("Ok", [self EXCEPT !.stake_amount = sum.v])

\* unstake without the comparison of amount with stake_amount.
unstake_unguarded(self, amount) ==
    LET diff == u64_checked_sub(self.stake_amount, amount)
    IN  IF ~diff.some THEN Ret("CalculationFailure", self)
        ELSE Ret("Ok", [self EXCEPT !.stake_amount = diff.v])

\* unstake that closes the record when nothing is left staked.
unstake_closing(self, amount) ==
    IF NLt(self.stake_amount, amount) THEN Ret("InsufficientLiquidity", self)
    ELSE Ret("Ok", [self EXCEPT !.stake_amount = NSub(self.stake_amount, amount),
                                !.is_initialized = self.stake_amount # amount])

unstake(self, amount) ==
    IF NLt(self.stake_amount, amount) THEN Ret("InsufficientLiquidity", self)
    ELSE LET diff == u64_checked_sub(self.stake_amount, amount)
         IN  IF ~diff.some THEN Ret("CalculationFailure", self)
             ELSE Ret("Ok", [self EXCEPT !.stake_amount = diff.v])

\* update_reward_owed that adds the reward of one day whatever the period.
update_reward_owed_daily(self, numerator, denominator, current_ts) ==
    IF ~IPos(ISubExact(current_ts, self.last_update)) THEN Ret("Ok", self)
    ELSE IF denominator = <<>> THEN Ret("CalculationFailure", self)
    ELSE Ret("Ok", [self EXCEPT
                      !.reward_owed =
                          NAdd(@, NAdd(NDiv(NMul(numerator, self.stake_amount),
                                            denominator), <<1>>)),
                      !.last_update = current_ts])

\* update_reward_owed that stamps last_update at every call, also when the
\* period is zero or negative.
update_reward_owed_stamping(self, numerator, denominator, current_ts) ==
    IF ~IPos(ISubExact(current_ts, self.last_update))
    THEN Ret("Ok", [self EXCEPT !.last_update = current_ts])
    ELSE IF denominator = <<>> THEN Ret("CalculationFailure", self)
    ELSE Ret("Ok", [self EXCEPT
                      !.reward_owed =
                          NAdd(@, NDiv(NMul(NDiv(NMul(numerator, self.stake_amount),
                                                 denominator),
                                            ISubExact(current_ts, self.last_update).mag),
                                       N(DAILY_TS))),
                      !.last_update = current_ts])

update_reward_owed(self, numerator, denominator, current_ts) ==
    LET calc_period == i64_checked_sub(current_ts, self.last_update)
    IN  IF ~calc_period.some THEN Ret("CalculationFailure", self)
        ELSE IF ~IPos(calc_period.v) THEN Ret("Ok", self)
        ELSE
        LET m1 == u64_checked_mul(numerator, self.stake_amount)
        IN  IF ~m1.some THEN Ret("CalculationFailure", self)
            ELSE
            LET d1 == u64_checked_div(m1.v, denominator)
            IN  IF ~d1.some THEN Ret("CalculationFailure", self)
                ELSE
                LET period == u64_try_from(calc_period.v)
                IN  IF ~period.some THEN Ret("Panic", self)
                    ELSE
                    LET m2 == u64_checked_mul(d1.v, period.v)
                    IN  IF ~m2.some THEN Ret("CalculationFailure", self)
                        ELSE
                        LET daily == u64_try_from(I(DAILY_TS))
                        IN  IF ~daily.some THEN Ret("Panic", self)
                            ELSE
                            LET d2 == u64_checked_div(m2.v, daily.v)
                            IN  IF ~d2.some THEN Ret("CalculationFailure", self)
                                ELSE
                                LET sum == u64_checked_add(d2.v, self.reward_owed)
                                IN  IF ~sum.some
                                    THEN Ret("CalculationFailure", self)
                                    ELSE Ret("Ok", [self EXCEPT
                                                      !.reward_owed = sum.v,
                                                      !.last_update = current_ts])

\* claim that hands reward_owed back without zeroing it.
claim_keeping(self) ==
    IF self.reward_owed = <<>>
    THEN [res |-> "InsufficientClaimAmount", self |-> self, ret |-> <<>>]
    ELSE [res |-> "Ok", self |-> self, ret |-> self.reward_owed]

\* StakeUser::claim: ret is the amount handed back on Ok
claim(self) ==
    IF self.reward_owed = <<>>
    THEN [res |-> "InsufficientClaimAmount", self |-> self, ret |-> <<>>]
    ELSE [res |-> "Ok", self |-> [self EXCEPT !.reward_owed = <<>>],
          ret |-> self.reward_owed]

(***************************************************************************)
(* state.rs: the Pool record.                                              *)
(***************************************************************************)
\* Pool::default()
DefaultPool ==
    [is_initialized |-> FALSE, bump_seed |-> 0, stake_token_mint |-> "default",
     reserved |-> "default", reward_mint |-> "default",
     reward_numerator |-> <<>>, reward_denominator |-> <<>>]

(***************************************************************************)
(* The accounts the host ledger holds.  An address is a string.  The       *)
(* owner of an account is the program that may write its data; the host    *)
(* fixes it when the account is created.                                   *)
(***************************************************************************)
PROGRAM_ID == "stake_program"

TOKEN_PROGRAM == "token_program"

SYSTEM_PROGRAM == "system_program"

CLOCK_SYSVAR == "clock_sysvar"

RENT_SYSVAR == "rent_sysvar"

PoolKeys == {"poolA", "poolB"}

UserKeys == {"user1", "user2"}

Wallets == {"alice", "bob"}

MintKeys == {"stake_mint", "other_mint", "reward_mintA", "reward_mintB"}

\* giftA is a token account of the staking mint that a third party created
\* naming the derived authority of pool A as its owner, and funded: the
\* token service lets anyone do both.
TokenKeys ==
    {"alice_stake", "bob_stake", "alice_other", "reserveA", "reserveB",
     "alice_rewardA", "alice_rewardB", "bob_rewardA", "bob_rewardB", "giftA"}

AccountOwner(key) ==
    IF key \in PoolKeys \cup UserKeys THEN PROGRAM_ID
    ELSE IF key \in MintKeys \cup TokenKeys THEN TOKEN_PROGRAM
    ELSE SYSTEM_PROGRAM

\* An entry of the accounts slice: the address and whether it signed.
Acct(key, is_signer) == [key |-> key, is_signer |-> is_signer]

\* Pubkey::create_program_address(&[pool key, &[bump_seed]], program_id): a
\* one-way function of its inputs that fails for the seeds whose hash is a
\* point of the curve.  Distinct inputs give distinct addresses, none of
\* which is the address of a wallet or of any other account.
create_program_address(pool_key, bump_seed, program_id) ==
    IF program_id # PROGRAM_ID THEN None
    ELSE IF pool_key = "poolA" /\ bump_seed = 255 THEN Some("authA")
    ELSE IF pool_key = "poolA" /\ bump_seed = 254 THEN Some("authA_254")
    ELSE IF pool_key = "poolB" /\ bump_seed = 255 THEN Some("authB")
    ELSE None

\* rent.is_exempt(account_info.lamports(), account_info.data_len()): every
\* program-owned account of the model was funded when it was created.
IsRentExempt(key) == key \in PoolKeys \cup UserKeys

(***************************************************************************)
(* The token service (spl_token), reached through invoke / invoke_signed.   *)
(* Each operation yields whether it succeeded and the service's accounts   *)
(* afterwards.  A handler reads only the mint and the amount of a token    *)
(* account.                                                                *)
(***************************************************************************)
NoTokenAccount ==
    [state |-> "Uninitialized", mint |-> "default", owner |-> "default",
     amount |-> <<>>]

TokenAccount(mint, owner, amount) ==
    [state |-> "Initialized", mint |-> mint, owner |-> owner, amount |-> amount]

TokenOk(td) == [ok |-> TRUE, td |-> td]

TokenErr(td) == [ok |-> FALSE, td |-> td]

\* A token account as the service and the handlers read it: an account of a
\* mint that does not exist yet does not exist either.
TokenAccountOf(td, key) ==
    LET a == td.tok[key]
    IN  IF a.state = "Initialized" /\ ~td.mint[a.mint].is_initialized
        THEN NoTokenAccount
        ELSE a

token_initialize_account(td, account, mint, owner) ==
    IF account \notin TokenKeys \/ mint \notin MintKeys THEN TokenErr(td)
    ELSE IF td.tok[account].state # "Uninitialized" THEN TokenErr(td)
    ELSE IF ~td.mint[mint].is_initialized THEN TokenErr(td)
    ELSE TokenOk([td EXCEPT !.tok[account] = TokenAccount(mint, owner, <<>>)])

token_initialize_mint(td, mint, authority) ==
    IF mint \notin MintKeys THEN TokenErr(td)
    ELSE IF td.mint[mint].is_initialized THEN TokenErr(td)
    ELSE TokenOk([td EXCEPT !.mint[mint] =
                     [is_initialized |-> TRUE, mint_authority |-> authority]])

\* signed: the authority signed the transaction, or the calling program
\* signed for it with the seeds of its derived address.
token_transfer(td, source, destination, amount, authority, signed) ==
    IF source \notin TokenKeys \/ destination \notin TokenKeys THEN TokenErr(td)
    ELSE
    LET src == TokenAccountOf(td, source)
        dst == TokenAccountOf(td, destination)
    IN  IF src.state # "Initialized" \/ dst.state # "Initialized" THEN TokenErr(td)
        ELSE IF NLt(src.amount, amount) THEN TokenErr(td)
        ELSE IF src.mint # dst.mint THEN TokenErr(td)
        ELSE IF src.owner # authority \/ ~signed THEN TokenErr(td)
        ELSE IF source = destination THEN TokenOk(td)
        ELSE IF ~IsU64(NAdd(dst.amount, amount)) THEN TokenErr(td)
        ELSE TokenOk([td EXCEPT
                        !.tok[source].amount = NSub(src.amount, amount),
                        !.tok[destination].amount = NAdd(dst.amount, amount)])

token_mint_to(td, mint, destination, amount, authority, signed) ==
    IF mint \notin MintKeys \/ destination \notin TokenKeys THEN TokenErr(td)
    ELSE
    LET dst == TokenAccountOf(td, destination)
    IN  IF dst.state # "Initialized" \/ ~td.mint[mint].is_initialized
        THEN TokenErr(td)
        ELSE IF dst.mint # mint THEN TokenErr(td)
        ELSE IF td.mint[mint].mint_authority # authority \/ ~signed
        THEN TokenErr(td)
        ELSE IF ~IsU64(NAdd(dst.amount, amount)) THEN TokenErr(td)
        ELSE TokenOk([td EXCEPT
                        !.tok[destination].amount = NAdd(dst.amount, amount)])

(***************************************************************************)
(* processor.rs.  A handler is a function of the ledger it is given        *)
(* (st: the pool records, the stake-user records, the token service's      *)
(* accounts and the clock), the accounts slice and the instruction data.   *)
(* It yields the result, the account buffers as the handler leaves them    *)
(* and the calls it made to the token service.                             *)
(***************************************************************************)
Out(res, st, cpi) == [res |-> res, st |-> st, cpi |-> cpi]

Err(e, st) == Out(e, st, <<>>)

Fetched(res, v) == [res |-> res, v |-> v]

\* The end of a handler whose last statement is a call c to the token
\* service made on the buffers st1: c.err is the error of the wrapper.
cpi_result(st1, c, call) ==
    IF ~c.ok THEN Out(c.err, st1, <<>>)
    ELSE Out("Ok", [st1 EXCEPT !.token_data = c.td], <<call>>)

\* Pack::unpack_unchecked and Pack::unpack for T = Pool on the data of a
\* program-owned account: the length is checked first.
Pool_unpack_unchecked(st, key) ==
    IF key \in PoolKeys THEN Fetched("Ok", st.pool_data[key])
    ELSE Fetched("InvalidAccountData", DefaultPool)

Pool_unpack(st, key) ==
    LET r == Pool_unpack_unchecked(st, key)
    IN  IF r.res = "Ok" /\ ~r.v.is_initialized
        THEN Fetched("UninitializedAccount", r.v)
        ELSE r

StakeUser_unpack_unchecked(st, key) ==
    IF key \in UserKeys THEN Fetched("Ok", st.user_data[key])
    ELSE Fetched("InvalidAccountData", DefaultStakeUser)

StakeUser_unpack(st, key) ==
    LET r == StakeUser_unpack_unchecked(st, key)
    IN  IF r.res = "Ok" /\ ~r.v.is_initialized
        THEN Fetched("UninitializedAccount", r.v)
        ELSE r

assert_rent_exempt(key) == IF IsRentExempt(key) THEN "Ok" ELSE "NotRentExempt"

\* assert_uninitialized that hands back an initialized record as well.
assert_unpacked(r) == r

assert_uninitialized(r) ==
    IF r.res = "Ok" /\ r.v.is_initialized THEN Fetched("AlreadyInUse", r.v) ELSE r

unpack_token_account(st, key, token_program_id) ==
    IF AccountOwner(key) # token_program_id
    THEN Fetched("InvalidAccountOwner", NoTokenAccount)
    ELSE IF key \notin TokenKeys
    THEN Fetched("InvalidTokenAccount", NoTokenAccount)
    ELSE LET a == TokenAccountOf(st.token_data, key)
         IN  IF a.state # "Initialized"
             THEN Fetched("InvalidTokenAccount", NoTokenAccount)
             ELSE Fetched("Ok", a)

\* The wrappers around invoke / invoke_signed: ok, the accounts of the
\* token service afterwards and the error the wrapper returns.  The
\* instruction builders of spl_token refuse a token_program other than the
\* token program with IncorrectProgramId, which the wrapper propagates with
\* `?`; a failure of the invoked instruction is mapped to the wrapper's own
\* error.
\* A wrapper that hands on the error of the token service unmapped.
Propagated(c, e) ==
    [ok |-> c.ok, td |-> c.td, err |-> IF c.ok THEN "Ok" ELSE "TokenError"]

Wrapped(c, e) == [ok |-> c.ok, td |-> c.td, err |-> IF c.ok THEN "Ok" ELSE e]

spl_token_init_account(td, token_program, account, mint, owner) ==
    IF token_program # TOKEN_PROGRAM THEN Wrapped(TokenErr(td), "IncorrectProgramId")
    ELSE Wrapped(token_initialize_account(td, account, mint, owner),
                 "TokenInitializeAccountFailed")

spl_token_init_mint(td, token_program, mint, authority) ==
    IF token_program # TOKEN_PROGRAM THEN Wrapped(TokenErr(td), "IncorrectProgramId")
    ELSE Wrapped(token_initialize_mint(td, mint, authority),
                 "TokenInitializeMintFailed")

\* authority: an entry of the accounts slice; seeds_address: the address
\* the signer seeds derive (None for the empty seeds).
invoke_optionally_signed(authority, seeds_address) ==
    authority.is_signer \/ (seeds_address.some /\ seeds_address.v = authority.key)

spl_token_transfer(td, token_program, source, destination, amount, authority, seeds_address) ==
    IF token_program # TOKEN_PROGRAM THEN Wrapped(TokenErr(td), "IncorrectProgramId")
    ELSE Wrapped(token_transfer(td, source, destination, amount, authority.key,
                     invoke_optionally_signed(authority, seeds_address)),
                 "TokenTransferFailed")

spl_token_mint_to(td, token_program, mint, destination, amount, authority, seeds_address) ==
    IF token_program # TOKEN_PROGRAM THEN Wrapped(TokenErr(td), "IncorrectProgramId")
    ELSE Wrapped(token_mint_to(td, mint, destination, amount, authority.key,
                     invoke_optionally_signed(authority, seeds_address)),
                 "TokenMintToFailed")

\* process_create_stake_pool without the comparison of the authority with
\* the derived address.
process_create_stake_pool_unchecked(program_id, st, accounts, init_data) ==
    IF Len(accounts) < 6 THEN Err("NotEnoughAccountKeys", st)
    ELSE IF accounts[6].key # RENT_SYSVAR THEN Err("InvalidArgument", st)
    ELSE IF Len(accounts) < 7 THEN Err("NotEnoughAccountKeys", st)
    ELSE
    LET stake_pool_info == accounts[1]
        stake_pool_authority_info == accounts[2]
        staking_token_mint_info == accounts[3]
        staking_token_reserve_info == accounts[4]
        reward_token_mint_info == accounts[5]
        token_program_info == accounts[7]
    IN
    IF AccountOwner(stake_pool_info.key) # program_id
    THEN Err("InvalidAccountOwner", st)
    ELSE IF assert_rent_exempt(stake_pool_info.key) # "Ok"
    THEN Err("NotRentExempt", st)
    ELSE
    LET u == assert_uninitialized(Pool_unpack_unchecked(st, stake_pool_info.key))
        addr == create_program_address(stake_pool_info.key, init_data.bump_seed,
                                       program_id)
    IN
    IF u.res # "Ok" THEN Err(u.res, st)
    ELSE IF ~addr.some THEN Err("InvalidSeeds", st)
    ELSE
    LET stake_pool ==
            [u.v EXCEPT !.is_initialized = TRUE,
                        !.bump_seed = init_data.bump_seed,
                        !.stake_token_mint = staking_token_mint_info.key,
                        !.reserved = staking_token_reserve_info.key,
                        !.reward_mint = reward_token_mint_info.key,
                        !.reward_numerator = init_data.reward_numerator,
                        !.reward_denominator = init_data.reward_denominator]
        st1 == [st EXCEPT !.pool_data[stake_pool_info.key] = stake_pool]
        c1 == spl_token_init_account(st1.token_data, token_program_info.key,
                  staking_token_reserve_info.key, staking_token_mint_info.key,
                  stake_pool_authority_info.key)
        call1 == [call |-> "initialize_account",
                  account |-> staking_token_reserve_info.key,
                  mint |-> staking_token_mint_info.key,
                  owner |-> stake_pool_authority_info.key]
        st2 == [st1 EXCEPT !.token_data = c1.td]
        c2 == spl_token_init_mint(st2.token_data, token_program_info.key,
                  reward_token_mint_info.key, stake_pool_authority_info.key)
        call2 == [call |-> "initialize_mint",
                  mint |-> reward_token_mint_info.key,
                  authority |-> stake_pool_authority_info.key]
        st3 == [st2 EXCEPT !.token_data = c2.td]
    IN
    IF ~c1.ok THEN Out(c1.err, st1, <<>>)
    ELSE IF ~c2.ok THEN Out(c2.err, st2, <<call1>>)
    ELSE Out("Ok", st3, <<call1, call2>>)

process_create_stake_pool(program_id, st, accounts, init_data) ==
    IF Len(accounts) < 6 THEN Err("NotEnoughAccountKeys", st)
    ELSE IF accounts[6].key # RENT_SYSVAR THEN Err("InvalidArgument", st)
    ELSE IF Len(accounts) < 7 THEN Err("NotEnoughAccountKeys", st)
    ELSE
    LET stake_pool_info == accounts[1]
        stake_pool_authority_info == accounts[2]
        staking_token_mint_info == accounts[3]
        staking_token_reserve_info == accounts[4]
        reward_token_mint_info == accounts[5]
        token_program_info == accounts[7]
    IN
    IF AccountOwner(stake_pool_info.key) # program_id
    THEN Err("InvalidAccountOwner", st)
    ELSE IF assert_rent_exempt(stake_pool_info.key) # "Ok"
    THEN Err("NotRentExempt", st)
    ELSE
    LET u == assert_uninitialized(Pool_unpack_unchecked(st, stake_pool_info.key))
        addr == create_program_address(stake_pool_info.key, init_data.bump_seed,
                                       program_id)
    IN
    IF u.res # "Ok" THEN Err(u.res, st)
    ELSE IF ~addr.some THEN Err("InvalidSeeds", st)
    ELSE IF stake_pool_authority_info.key # addr.v
    THEN Err("InvalidPoolAuthority", st)
    ELSE
    LET stake_pool ==
            [u.v EXCEPT !.is_initialized = TRUE,
                        !.bump_seed = init_data.bump_seed,
                        !.stake_token_mint = staking_token_mint_info.key,
                        !.reserved = staking_token_reserve_info.key,
                        !.reward_mint = reward_token_mint_info.key,
                        !.reward_numerator = init_data.reward_numerator,
                        !.reward_denominator = init_data.reward_denominator]
        st1 == [st EXCEPT !.pool_data[stake_pool_info.key] = stake_pool]
        c1 == spl_token_init_account(st1.token_data, token_program_info.key,
                  staking_token_reserve_info.key, staking_token_mint_info.key,
                  stake_pool_authority_info.key)
        call1 == [call |-> "initialize_account",
                  account |-> staking_token_reserve_info.key,
                  mint |-> staking_token_mint_info.key,
                  owner |-> stake_pool_authority_info.key]
        st2 == [st1 EXCEPT !.token_data = c1.td]
        c2 == spl_token_init_mint(st2.token_data, token_program_info.key,
                  reward_token_mint_info.key, stake_pool_authority_info.key)
        call2 == [call |-> "initialize_mint",
                  mint |-> reward_token_mint_info.key,
                  authority |-> stake_pool_authority_info.key]
        st3 == [st2 EXCEPT !.token_data = c2.td]
    IN
    IF ~c1.ok THEN Out(c1.err, st1, <<>>)
    ELSE IF ~c2.ok THEN Out(c2.err, st2, <<call1>>)
    ELSE Out("Ok", st3, <<call1, call2>>)

\* process_create_stake_user without the check of the owner's signature.
process_create_stake_user_unsigned(program_id, st, accounts) ==
    IF Len(accounts) < 4 THEN Err("NotEnoughAccountKeys", st)
    ELSE IF accounts[4].key # RENT_SYSVAR THEN Err("InvalidArgument", st)
    ELSE IF AccountOwner(accounts[1].key) # program_id
            \/ AccountOwner(accounts[2].key) # program_id
    THEN Err("InvalidAccountOwner", st)
    ELSE IF assert_rent_exempt(accounts[2].key) # "Ok"
    THEN Err("NotRentExempt", st)
    ELSE IF assert_uninitialized(StakeUser_unpack_unchecked(st, accounts[2].key)).res
            # "Ok"
    THEN Err(assert_uninitialized(
                 StakeUser_unpack_unchecked(st, accounts[2].key)).res, st)
    ELSE Out("Ok",
             [st EXCEPT !.user_data[accounts[2].key] =
                 init(st.user_data[accounts[2].key],
                      [pool_pubkey |-> accounts[1].key,
                       owner |-> accounts[3].key])],
             <<>>)

process_create_stake_user(program_id, st, accounts) ==
    IF Len(accounts) < 4 THEN Err("NotEnoughAccountKeys", st)
    ELSE IF accounts[4].key # RENT_SYSVAR THEN Err("InvalidArgument", st)
    ELSE
    LET stake_pool_info == accounts[1]
        stake_user_info == accounts[2]
        stake_owner_info == accounts[3]
    IN
    IF AccountOwner(stake_pool_info.key) # program_id
       \/ AccountOwner(stake_user_info.key) # program_id
    THEN Err("InvalidAccountOwner", st)
    ELSE IF assert_rent_exempt(stake_user_info.key) # "Ok"
    THEN Err("NotRentExempt", st)
    ELSE
    LET u == assert_uninitialized(
                 StakeUser_unpack_unchecked(st, stake_user_info.key))
    IN
    IF u.res # "Ok" THEN Err(u.res, st)
    ELSE IF ~stake_owner_info.is_signer THEN Err("InvalidSigner", st)
    ELSE
    LET stake_user == init(u.v, [pool_pubkey |-> stake_pool_info.key,
                                 owner |-> stake_owner_info.key])
    IN  Out("Ok", [st EXCEPT !.user_data[stake_user_info.key] = stake_user], <<>>)

\* The transfer that ends process_stake and process_unstake: st1 holds the
\* packed stake-user record, seeds_address the address the signer seeds
\* derive.
transfer_packed(st1, accounts, amount, authority, seeds_address) ==
    cpi_result(st1,
        spl_token_transfer(st1.token_data, accounts[8].key, accounts[5].key,
                           accounts[6].key, amount, authority, seeds_address),
        [call |-> "transfer", source |-> accounts[5].key,
         destination |-> accounts[6].key, amount |-> amount,
         authority |-> authority.key])

\* process_stake from stake_user.stake(amount) on: staked is its outcome.
stake_staked(st, accounts, amount, staked) ==
    IF staked.res # "Ok" THEN Err(staked.res, st)
    ELSE transfer_packed([st EXCEPT !.user_data[accounts[2].key] = staked.self],
                         accounts, amount, accounts[3], None)

\* process_stake that leaves last_update as it was when nothing was staked.
stake_accrued_unstamped(st, accounts, amount, accrued) ==
    IF accrued.res # "Ok" THEN Err(accrued.res, st)
    ELSE stake_staked(st, accounts, amount,
             stake(IF st.user_data[accounts[2].key].stake_amount = <<>>
                   THEN st.user_data[accounts[2].key] ELSE accrued.self,
                   amount))

\* process_stake after the accrual branch: accrued is its outcome.
stake_accrued(st, accounts, amount, accrued) ==
    IF accrued.res # "Ok" THEN Err(accrued.res, st)
    ELSE stake_staked(st, accounts, amount, stake(accrued.self, amount))

\* process_stake without the comparison of the source balance with amount.
process_stake_unfunded(program_id, st, accounts, amount) ==
    IF Len(accounts) < 7 THEN Err("NotEnoughAccountKeys", st)
    ELSE IF accounts[7].key # CLOCK_SYSVAR THEN Err("InvalidArgument", st)
    ELSE IF Len(accounts) < 8 THEN Err("NotEnoughAccountKeys", st)
    ELSE IF AccountOwner(accounts[1].key) # program_id
            \/ AccountOwner(accounts[2].key) # program_id
    THEN Err("InvalidAccountOwner", st)
    ELSE
    LET su == StakeUser_unpack(st, accounts[2].key)
        sp == Pool_unpack(st, accounts[1].key)
        src == unpack_token_account(st, accounts[5].key, accounts[8].key)
        dst == unpack_token_account(st, accounts[6].key, accounts[8].key)
    IN
    IF su.res # "Ok" THEN Err(su.res, st)
    ELSE IF ~accounts[4].is_signer THEN Err("InvalidSigner", st)
    ELSE IF su.v.owner # accounts[4].key THEN Err("InvalidStakeOwner", st)
    ELSE IF sp.res # "Ok" THEN Err(sp.res, st)
    ELSE IF sp.v.reserved # accounts[6].key THEN Err("InvalidTokenAccount", st)
    ELSE IF src.res # "Ok" THEN Err(src.res, st)
    ELSE IF dst.res # "Ok" THEN Err(dst.res, st)
    ELSE IF src.v.mint # dst.v.mint THEN Err("InvalidTokenMint", st)
    ELSE IF src.v.mint # sp.v.stake_token_mint THEN Err("InvalidTokenMint", st)
    ELSE
    stake_accrued(st, accounts, amount,
        IF su.v.stake_amount # <<>>
        THEN update_reward_owed(su.v, sp.v.reward_numerator,
                                sp.v.reward_denominator, st.clock)
        ELSE Ret("Ok", [su.v EXCEPT !.last_update = st.clock]))

process_stake(program_id, st, accounts, amount) ==
    IF Len(accounts) < 7 THEN Err("NotEnoughAccountKeys", st)
    ELSE IF accounts[7].key # CLOCK_SYSVAR THEN Err("InvalidArgument", st)
    ELSE IF Len(accounts) < 8 THEN Err("NotEnoughAccountKeys", st)
    ELSE
    LET stake_pool_info == accounts[1]
        stake_user_info == accounts[2]
        user_transfer_authority_info == accounts[3]
        stake_owner_info == accounts[4]
        source_info == accounts[5]
        destination_info == accounts[6]
        token_program_info == accounts[8]
    IN
    IF AccountOwner(stake_pool_info.key) # program_id
       \/ AccountOwner(stake_user_info.key) # program_id
    THEN Err("InvalidAccountOwner", st)
    ELSE
    LET su == StakeUser_unpack(st, stake_user_info.key)
        sp == Pool_unpack(st, stake_pool_info.key)
        stake_pool == sp.v
        src == unpack_token_account(st, source_info.key, token_program_info.key)
        dst == unpack_token_account(st, destination_info.key,
                                    token_program_info.key)
    IN
    IF su.res # "Ok" THEN Err(su.res, st)
    ELSE IF ~stake_owner_info.is_signer THEN Err("InvalidSigner", st)
    ELSE IF su.v.owner # stake_owner_info.key THEN Err("InvalidStakeOwner", st)
    ELSE IF sp.res # "Ok" THEN Err(sp.res, st)
    ELSE IF stake_pool.reserved # destination_info.key
    THEN Err("InvalidTokenAccount", st)
    ELSE IF src.res # "Ok" THEN Err(src.res, st)
    ELSE IF dst.res # "Ok" THEN Err(dst.res, st)
    ELSE IF src.v.mint # dst.v.mint THEN Err("InvalidTokenMint", st)
    ELSE IF src.v.mint # stake_pool.stake_token_mint
    THEN Err("InvalidTokenMint", st)
    ELSE IF NLt(src.v.amount, amount) THEN Err("InsufficientFunds", st)
    ELSE
    stake_accrued(st, accounts, amount,
        IF su.v.stake_amount # <<>>
        THEN update_reward_owed(su.v, stake_pool.reward_numerator,
                                stake_pool.reward_denominator, st.clock)
        ELSE Ret("Ok", [su.v EXCEPT !.last_update = st.clock]))

\* process_unstake from stake_user.unstake(amount) on.
unstake_unstaked(st, accounts, amount, addr, unstaked) ==
    IF unstaked.res # "Ok" THEN Err(unstaked.res, st)
    ELSE transfer_packed([st EXCEPT !.user_data[accounts[2].key] = unstaked.self],
                         accounts, amount, accounts[3], addr)

\* process_unstake that subtracts the amount first and runs the accrual on
\* what is left.
unstake_accrued_late(st, accounts, amount, addr, accrued) ==
    LET un == unstake(st.user_data[accounts[2].key], amount)
    IN  IF accrued.res # "Ok" THEN Err(accrued.res, st)
        ELSE IF un.res # "Ok" THEN Err(un.res, st)
        ELSE unstake_unstaked(st, accounts, amount, addr,
                 update_reward_owed(un.self,
                     st.pool_data[accounts[1].key].reward_numerator,
                     st.pool_data[accounts[1].key].reward_denominator, st.clock))

\* process_unstake after the accrual branch.
unstake_accrued(st, accounts, amount, addr, accrued) ==
    IF accrued.res # "Ok" THEN Err(accrued.res, st)
    ELSE unstake_unstaked(st, accounts, amount, addr,
                          unstake(accrued.self, amount))

process_unstake(program_id, st, accounts, amount) ==
    IF Len(accounts) < 7 THEN Err("NotEnoughAccountKeys", st)
    ELSE IF accounts[7].key # CLOCK_SYSVAR THEN Err("InvalidArgument", st)
    ELSE IF Len(accounts) < 8 THEN Err("NotEnoughAccountKeys", st)
    ELSE
    LET stake_pool_info == accounts[1]
        stake_user_info == accounts[2]
        stake_pool_authority_info == accounts[3]
        stake_owner_info == accounts[4]
        source_info == accounts[5]
        destination_info == accounts[6]
        token_program_info == accounts[8]
    IN
    IF AccountOwner(stake_pool_info.key) # program_id
       \/ AccountOwner(stake_user_info.key) # program_id
    THEN Err("InvalidAccountOwner", st)
    ELSE
    LET su == StakeUser_unpack(st, stake_user_info.key)
        sp == Pool_unpack(st, stake_pool_info.key)
        stake_pool == sp.v
        addr == create_program_address(stake_pool_info.key, stake_pool.bump_seed,
                                       program_id)
        src == unpack_token_account(st, source_info.key, token_program_info.key)
        dst == unpack_token_account(st, destination_info.key,
                                    token_program_info.key)
    IN
    IF su.res # "Ok" THEN Err(su.res, st)
    ELSE IF ~stake_owner_info.is_signer THEN Err("InvalidSigner", st)
    ELSE IF su.v.owner # stake_owner_info.key THEN Err("InvalidStakeOwner", st)
    ELSE IF sp.res # "Ok" THEN Err(sp.res, st)
    ELSE IF ~addr.some THEN Err("InvalidSeeds", st)
    ELSE IF stake_pool_authority_info.key # addr.v
    THEN Err("InvalidPoolAuthority", st)
    ELSE IF src.res # "Ok" THEN Err(src.res, st)
    ELSE IF dst.res # "Ok" THEN Err(dst.res, st)
    ELSE IF src.v.mint # dst.v.mint THEN Err("InvalidTokenMint", st)
    ELSE IF dst.v.mint # stake_pool.stake_token_mint
    THEN Err("InvalidTokenMint", st)
    ELSE IF NLt(src.v.amount, amount) THEN Err("InsufficientLiquidity", st)
    ELSE
    unstake_accrued(st, accounts, amount, addr,
        IF su.v.stake_amount # <<>>
        THEN update_reward_owed(su.v, stake_pool.reward_numerator,
                                stake_pool.reward_denominator, st.clock)
        ELSE Ret("Ok", su.v))

\* The mint_to that ends process_claim: st1 holds the packed record.
mint_packed(st1, accounts, amount, addr) ==
    cpi_result(st1,
        spl_token_mint_to(st1.token_data, accounts[8].key, accounts[5].key,
                          accounts[6].key, amount, accounts[4], addr),
        [call |-> "mint_to", mint |-> accounts[5].key,
         destination |-> accounts[6].key, amount |-> amount,
         authority |-> accounts[4].key])

\* process_claim from stake_user.claim() on.
claim_claimed(st, accounts, addr, claimed) ==
    IF claimed.res # "Ok" THEN Err(claimed.res, st)
    ELSE mint_packed([st EXCEPT !.user_data[accounts[2].key] = claimed.self],
                     accounts, claimed.ret, addr)

\* process_claim that claims the record as it was unpacked, without the
\* accrual.
claim_stale(st, accounts, addr, accrued) ==
    claim_claimed(st, accounts, addr, claim(st.user_data[accounts[2].key]))

\* process_claim after the accrual branch.
claim_accrued(st, accounts, addr, accrued) ==
    IF accrued.res # "Ok" THEN Err(accrued.res, st)
    ELSE claim_claimed(st, accounts, addr, claim(accrued.self))

process_claim(program_id, st, accounts) ==
    IF Len(accounts) < 7 THEN Err("NotEnoughAccountKeys", st)
    ELSE IF accounts[7].key # CLOCK_SYSVAR THEN Err("InvalidArgument", st)
    ELSE IF Len(accounts) < 8 THEN Err("NotEnoughAccountKeys", st)
    ELSE
    LET stake_pool_info == accounts[1]
        stake_user_info == accounts[2]
        stake_owner_info == accounts[3]
        stake_pool_authority_info == accounts[4]
        reward_mint_info == accounts[5]
        reward_token_info == accounts[6]
        token_program_info == accounts[8]
    IN
    IF AccountOwner(stake_pool_info.key) # program_id
       \/ AccountOwner(stake_user_info.key) # program_id
    THEN Err("InvalidAccountOwner", st)
    ELSE
    LET su == StakeUser_unpack(st, stake_user_info.key)
        sp == Pool_unpack(st, stake_pool_info.key)
        stake_pool == sp.v
        reward_token == unpack_token_account(st, reward_token_info.key,
                                             token_program_info.key)
        addr == create_program_address(stake_pool_info.key, stake_pool.bump_seed,
                                       program_id)
    IN
    IF su.res # "Ok" THEN Err(su.res, st)
    ELSE IF su.v.pool_pubkey # stake_pool_info.key
    THEN Err("InvalidStakeOwner", st)
    ELSE IF su.v.owner # stake_owner_info.key THEN Err("InvalidStakeOwner", st)
    ELSE IF ~stake_owner_info.is_signer THEN Err("InvalidSigner", st)
    ELSE IF sp.res # "Ok" THEN Err(sp.res, st)
    ELSE IF reward_token.res # "Ok" THEN Err(reward_token.res, st)
    ELSE IF stake_pool.reward_mint # reward_mint_info.key
    THEN Err("InvalidTokenMint", st)
    ELSE IF AccountOwner(reward_token_info.key) = stake_pool_authority_info.key
    THEN Err("InvalidAccountOwner", st)
    ELSE IF reward_token.v.mint # reward_mint_info.key
    THEN Err("InvalidTokenMint", st)
    ELSE IF ~addr.some THEN Err("InvalidSeeds", st)
    ELSE IF stake_pool_authority_info.key # addr.v
    THEN Err("InvalidPoolAuthority", st)
    ELSE
    claim_accrued(st, accounts, addr,
        IF su.v.stake_amount # <<>>
        THEN update_reward_owed(su.v, stake_pool.reward_numerator,
                                stake_pool.reward_denominator, st.clock)
        ELSE Ret("Ok", su.v))

\* The loop of process_refresh over accounts[i..]: the buffers after the
\* loop, or the first error with the buffers as they were when it was raised.
RECURSIVE refresh_loop(_, _, _, _, _)

\* An iteration that goes on without packing the accrued record.
refresh_unpacked(program_id, st, accounts, stake_pool_key, i, accrued) ==
    IF accrued.res # "Ok" THEN Err(accrued.res, st)
    ELSE refresh_loop(program_id, st, accounts, stake_pool_key, i + 1)

\* One iteration from the outcome of update_reward_owed on.
refresh_accrued(program_id, st, accounts, stake_pool_key, i, accrued) ==
    IF accrued.res # "Ok" THEN Err(accrued.res, st)
    ELSE refresh_loop(program_id,
             [st EXCEPT !.user_data[accounts[i].key] = accrued.self],
             accounts, stake_pool_key, i + 1)

\* The loop of process_refresh that accrues a record with nothing staked as
\* well.
refresh_loop_unskipped(program_id, st, accounts, stake_pool_key, i) ==
    IF i > Len(accounts) THEN Out("Ok", st, <<>>)
    ELSE IF AccountOwner(accounts[i].key) # program_id
    THEN refresh_loop(program_id, st, accounts, stake_pool_key, i + 1)
    ELSE IF StakeUser_unpack(st, accounts[i].key).res # "Ok"
    THEN Err(StakeUser_unpack(st, accounts[i].key).res, st)
    ELSE IF st.user_data[accounts[i].key].pool_pubkey # stake_pool_key
    THEN refresh_loop(program_id, st, accounts, stake_pool_key, i + 1)
    ELSE
    refresh_accrued(program_id, st, accounts, stake_pool_key, i,
        update_reward_owed(st.user_data[accounts[i].key],
                           st.pool_data[stake_pool_key].reward_numerator,
                           st.pool_data[stake_pool_key].reward_denominator,
                           st.clock))

refresh_loop(program_id, st, accounts, stake_pool_key, i) ==
    IF i > Len(accounts) THEN Out("Ok", st, <<>>)
    ELSE
    LET stake_user_info == accounts[i]
    IN
    IF AccountOwner(stake_user_info.key) # program_id
    THEN refresh_loop(program_id, st, accounts, stake_pool_key, i + 1)
    ELSE
    LET su == StakeUser_unpack(st, stake_user_info.key)
        stake_pool == st.pool_data[stake_pool_key]
    IN
    IF su.res # "Ok" THEN Err(su.res, st)
    ELSE IF su.v.pool_pubkey # stake_pool_key
    THEN refresh_loop(program_id, st, accounts, stake_pool_key, i + 1)
    ELSE IF su.v.stake_amount = <<>>
    THEN refresh_loop(program_id, st, accounts, stake_pool_key, i + 1)
    ELSE
    refresh_accrued(program_id, st, accounts, stake_pool_key, i,
        update_reward_owed(su.v, stake_pool.reward_numerator,
                           stake_pool.reward_denominator, st.clock))

process_refresh(program_id, st, accounts) ==
    IF Len(accounts) < 2 THEN Err("NotEnoughAccountKeys", st)
    ELSE IF accounts[2].key # CLOCK_SYSVAR THEN Err("InvalidArgument", st)
    ELSE
    LET stake_pool_info == accounts[1]
        sp == Pool_unpack(st, stake_pool_info.key)
    IN
    IF AccountOwner(stake_pool_info.key) # program_id
    THEN Err("InvalidAccountOwner", st)
    ELSE IF sp.res # "Ok" THEN Err(sp.res, st)
    ELSE refresh_loop(program_id, st, accounts, stake_pool_info.key, 3)

(***************************************************************************)
(* The ledger and the transactions sent to the program.  The host commits  *)
(* the account buffers of an instruction only when it returns Ok; a failed *)
(* instruction leaves the ledger as it was.                                *)
(***************************************************************************)
MaxTicks == 1

TEN_BILLION == <<0, 0, 100>>

ClockTimes == <<I(DAILY_TS), I(43200), I(DAILY_TS + 1)>>

ONE == N(1)

AliceFunds == NAdd(TEN_BILLION, TEN_BILLION)

BobFunds == TEN_BILLION

GiftFunds == TEN_BILLION

NoMint == [is_initialized |-> FALSE, mint_authority |-> "default"]

InitTokenData ==
    [mint |-> [m \in MintKeys |->
                 IF m \in {"stake_mint", "other_mint"}
                 THEN [is_initialized |-> TRUE, mint_authority |-> "mint_admin"]
                 ELSE NoMint],
     tok |-> [t \in TokenKeys |->
                 CASE t = "alice_stake" -> TokenAccount("stake_mint", "alice", AliceFunds)
                   [] t = "bob_stake" -> TokenAccount("stake_mint", "bob", BobFunds)
                   [] t = "alice_other" -> TokenAccount("other_mint", "alice", AliceFunds)
                   [] t = "alice_rewardA" -> TokenAccount("reward_mintA", "alice", <<>>)
                   [] t = "alice_rewardB" -> TokenAccount("reward_mintB", "alice", <<>>)
                   [] t = "bob_rewardA" -> TokenAccount("reward_mintA", "bob", <<>>)
                   [] t = "bob_rewardB" -> TokenAccount("reward_mintB", "bob", <<>>)
                   [] t = "giftA" -> TokenAccount("stake_mint", "authA", GiftFunds)
                   [] OTHER -> NoTokenAccount]]

NoInvocation == [op |-> "None", accounts |-> <<>>, data |-> <<>>, cpi |-> <<>>]

AccIdle == [trail |-> <<>>]

CodIdle == [kind |-> "None"]

InitProgram ==
    /\ pool_data = [k \in PoolKeys |-> DefaultPool]
    /\ user_data = [k \in UserKeys |-> DefaultStakeUser]
    /\ token_data = InitTokenData
    /\ clock = I(0)
    /\ last = NoInvocation

Init == InitProgram /\ acc = AccIdle /\ cod = CodIdle

St == [pool_data |-> pool_data, user_data |-> user_data,
       token_data |-> token_data, clock |-> clock]

\* The addresses a client derives for a pool and for a wallet.
Authority(p) == IF p = "poolA" THEN "authA" ELSE "authB"

Reserve(p) == IF p = "poolA" THEN "reserveA" ELSE "reserveB"

RewardMint(p) == IF p = "poolA" THEN "reward_mintA" ELSE "reward_mintB"

StakeToken(w) == IF w = "alice" THEN "alice_stake" ELSE "bob_stake"

RewardToken(w, p) ==
    IF w = "alice" THEN (IF p = "poolA" THEN "alice_rewardA" ELSE "alice_rewardB")
    ELSE (IF p = "poolA" THEN "bob_rewardA" ELSE "bob_rewardB")

\* The accounts the instruction builders of instruction.rs lay out, with
\* the stake owner of Claim at the place the handler reads it.
create_stake_pool_accounts(p, authority, mint, reserve, reward_mint) ==
    <<Acct(p, TRUE), Acct(authority, FALSE), Acct(mint, FALSE),
      Acct(reserve, FALSE), Acct(reward_mint, FALSE), Acct(RENT_SYSVAR, FALSE),
      Acct(TOKEN_PROGRAM, FALSE)>>

create_stake_user_accounts(p, u, w) ==
    <<Acct(p, FALSE), Acct(u, FALSE), Acct(w, TRUE), Acct(RENT_SYSVAR, FALSE)>>

stake_accounts(p, u, authority, w, source, destination) ==
    <<Acct(p, FALSE), Acct(u, FALSE), Acct(authority, TRUE), Acct(w, TRUE),
      Acct(source, FALSE), Acct(destination, FALSE), Acct(CLOCK_SYSVAR, FALSE),
      Acct(TOKEN_PROGRAM, FALSE)>>

unstake_accounts(p, u, authority, w, source, destination) ==
    <<Acct(p, FALSE), Acct(u, FALSE), Acct(authority, FALSE), Acct(w, TRUE),
      Acct(source, FALSE), Acct(destination, FALSE), Acct(CLOCK_SYSVAR, FALSE),
      Acct(TOKEN_PROGRAM, FALSE)>>

claim_accounts(p, u, w, authority, reward_mint, destination) ==
    <<Acct(p, FALSE), Acct(u, FALSE), Acct(w, TRUE), Acct(authority, FALSE),
      Acct(reward_mint, FALSE), Acct(destination, FALSE),
      Acct(CLOCK_SYSVAR, FALSE), Acct(TOKEN_PROGRAM, FALSE)>>

refresh_accounts(p, users) ==
    <<Acct(p, FALSE), Acct(CLOCK_SYSVAR, FALSE)>>
        \o [i \in 1..Len(users) |-> Acct(users[i], FALSE)]

\* The transactions of the model.  Pool A pays 1/1000 of the stake per day;
\* pool B is created with a zero denominator.  A wallet stakes its tokens in
\* lots of 10^10 base units through its own stake-user account, in the pool
\* that account names.
InitDataOf(p) ==
    [bump_seed |-> 255, reward_numerator |-> ONE,
     reward_denominator |-> IF p = "poolA" THEN N(1000) ELSE <<>>]

WalletOf(u) == IF u = "user1" THEN "alice" ELSE "bob"

StakeAmounts == {TEN_BILLION}

UnstakeAmounts == {TEN_BILLION, NAdd(TEN_BILLION, TEN_BILLION)}

UserLists == {<<>>, <<"user1">>, <<"user2">>, <<"user1", "user2">>}

Commit(op, accounts, data, o) ==
    /\ o.res = "Ok"
    /\ pool_data' = o.st.pool_data
    /\ user_data' = o.st.user_data
    /\ token_data' = o.st.token_data
    /\ last' = [op |-> op, accounts |-> accounts, data |-> data, cpi |-> o.cpi]
    /\ UNCHANGED <<clock, acc, cod>>

CreatePool(p, init_data) ==
    LET accounts == create_stake_pool_accounts(p, Authority(p), "stake_mint",
                                               Reserve(p), RewardMint(p))
    IN  Commit("CreatePool", accounts, init_data,
               process_create_stake_pool(PROGRAM_ID, St, accounts, init_data))

CreateStakeUser(p, u, w) ==
    LET accounts == create_stake_user_accounts(p, u, w)
    IN  Commit("CreateStakeUser", accounts, <<>>,
               process_create_stake_user(PROGRAM_ID, St, accounts))

Stake(p, u, w, amount) ==
    LET accounts == stake_accounts(p, u, w, w, StakeToken(w), Reserve(p))
    IN  Commit("Stake", accounts, amount,
               process_stake(PROGRAM_ID, St, accounts, amount))

Unstake(p, u, w, amount) ==
    LET accounts == unstake_accounts(p, u, Authority(p), w, Reserve(p),
                                     StakeToken(w))
    IN  Commit("Unstake", accounts, amount,
               process_unstake(PROGRAM_ID, St, accounts, amount))

Claim(p, u, w) ==
    LET accounts == claim_accounts(p, u, w, Authority(p), RewardMint(p),
                                   RewardToken(w, p))
    IN  Commit("Claim", accounts, <<>>,
               process_claim(PROGRAM_ID, St, accounts))

Refresh(p, users) ==
    LET accounts == refresh_accounts(p, users)
    IN  Commit("Refresh", accounts, <<>>,
               process_refresh(PROGRAM_ID, St, accounts))

\* A clock sysvar that may also go back to 0.
TickBack(t) ==
    /\ clock' = IF clock = t THEN I(0) ELSE t
    /\ last' = NoInvocation
    /\ UNCHANGED <<pool_data, user_data, token_data, acc, cod>>

\* Time passes between transactions: the clock sysvar moves forward.
Tick(t) ==
    /\ ILe(clock, t) /\ clock # t
    /\ clock' = t
    /\ last' = NoInvocation
    /\ UNCHANGED <<pool_data, user_data, token_data, acc, cod>>

Next ==
    \/ \E p \in PoolKeys : CreatePool(p, InitDataOf(p))
    \/ \E p \in PoolKeys, u \in UserKeys : CreateStakeUser(p, u, WalletOf(u))
    \/ \E u \in UserKeys, a \in StakeAmounts :
          Stake(user_data[u].pool_pubkey, u, WalletOf(u), a)
    \/ \E u \in UserKeys, a \in UnstakeAmounts :
          Unstake(user_data[u].pool_pubkey, u, WalletOf(u), a)
    \/ \E u \in UserKeys : Claim(user_data[u].pool_pubkey, u, WalletOf(u))
    \/ \E p \in PoolKeys, users \in UserLists : Refresh(p, users)
    \/ \E i \in 1..MaxTicks : Tick(ClockTimes[i])

Spec == Init /\ [][Next]_vars

(***************************************************************************)
(* Properties of the handlers in the reachable ledgers.                    *)
(***************************************************************************)
\* The stake users whose record and whose pool are initialized.
ActiveUsers ==
    {u \in UserKeys :
        /\ user_data[u].is_initialized
        /\ user_data[u].pool_pubkey \in PoolKeys
        /\ pool_data[user_data[u].pool_pubkey].is_initialized}

\* The accounts of a valid Unstake and of a valid Claim for u, read off the
\* ledger, with the given address as the pool authority.
UnstakeAccountsOf(u, authority) ==
    LET p == user_data[u].pool_pubkey
        w == user_data[u].owner
    IN  unstake_accounts(p, u, authority, w, pool_data[p].reserved,
                         StakeToken(w))

ClaimAccountsOf(u, authority) ==
    LET p == user_data[u].pool_pubkey
        w == user_data[u].owner
    IN  claim_accounts(p, u, w, authority, pool_data[p].reward_mint,
                       RewardToken(w, p))

\* derive(pool_address, stored seed) for the pool of u.
DerivedAuthority(u) ==
    create_program_address(user_data[u].pool_pubkey,
        pool_data[user_data[u].pool_pubkey].bump_seed, PROGRAM_ID).v

Addresses ==
    {"alice", "bob", "authA", "authB", "authA_254", "poolA", "reserveA",
     "stake_mint", TOKEN_PROGRAM, PROGRAM_ID, SYSTEM_PROGRAM}

\* The handler refused with the given error, asked the token service for
\* nothing and left every buffer as it was.
Refused(o, e) == o.res = e /\ o.cpi = <<>> /\ o.st = St

\* C1 as stated: an Unstake or a Claim that is valid but for its pool
\* authority, which is any address other than the derived one, fails with
\* InvalidPoolAuthority, requests no token movement and changes no record.
C1_AsStated ==
    \A u \in ActiveUsers :
        \A f \in Addresses \ {DerivedAuthority(u)} :
            /\ \A a \in UnstakeAmounts :
                  Refused(process_unstake(PROGRAM_ID, St,
                              UnstakeAccountsOf(u, f), a),
                          "InvalidPoolAuthority")
            /\ Refused(process_claim(PROGRAM_ID, St, ClaimAccountsOf(u, f)),
                       "InvalidPoolAuthority")

\* The total of the staking tokens in existence.
StakeSupply == NAdd(NAdd(AliceFunds, BobFunds), GiftFunds)

ProbeAmounts == UnstakeAmounts \cup {ONE, StakeSupply, U64_MAX}

\* The accrual process_unstake runs for u before the subtraction fails.
UnstakeAccrualFails(u) ==
    /\ user_data[u].stake_amount # <<>>
    /\ update_reward_owed(user_data[u],
           pool_data[user_data[u].pool_pubkey].reward_numerator,
           pool_data[user_data[u].pool_pubkey].reward_denominator,
           clock).res # "Ok"

C3_ClaimZeroes ==
    last.op = "Claim" =>
        /\ user_data[last.accounts[2].key].reward_owed = <<>>
        /\ Refused(process_claim(PROGRAM_ID, St, last.accounts),
                   "InsufficientClaimAmount")

\* A Claim has just minted a positive amount to a user who still stakes.
C3_Witness ==
    /\ last.op = "Claim"
    /\ Len(last.cpi) = 1
    /\ last.cpi[1].call = "mint_to"
    /\ last.cpi[1].amount # <<>>
    /\ user_data[last.accounts[2].key].stake_amount # <<>>

TEN_MILLION == <<0, 1000>>

\* u is a user of a pool paying 1/1000 a day who staked 10^10 at clock 0 and
\* whose record has not been accrued since.
StakedAtZero(u) ==
    /\ u \in ActiveUsers
    /\ pool_data[user_data[u].pool_pubkey].reward_numerator = N(1)
    /\ pool_data[user_data[u].pool_pubkey].reward_denominator = N(1000)
    /\ user_data[u].stake_amount = TEN_BILLION
    /\ user_data[u].reward_owed = <<>>
    /\ user_data[u].last_update = I(0)

\* C5: when the record of such a user is next changed, at clock 86400, by a
\* Stake or a Refresh, it has reward_owed = 10^7 and last_update = 86400.
C5_Scenario ==
    [][\A u \in UserKeys :
          (/\ StakedAtZero(u)
           /\ clock = I(86400)
           /\ last'.op \in {"Stake", "Refresh"}
           /\ user_data'[u] # user_data[u])
          => /\ user_data'[u].reward_owed = TEN_MILLION
             /\ user_data'[u].last_update = I(86400)]_vars

\* At clock 86400 a Stake has just accrued 10^7 on a stake of 10^10 and
\* added a second lot to it.
C5_Witness ==
    /\ last.op = "Stake"
    /\ clock = I(86400)
    /\ user_data[last.accounts[2].key].reward_owed = TEN_MILLION
    /\ user_data[last.accounts[2].key].last_update = I(86400)
    /\ user_data[last.accounts[2].key].stake_amount = NAdd(TEN_BILLION, TEN_BILLION)
    /\ pool_data[last.accounts[1].key].reward_denominator = N(1000)

(***************************************************************************)
(* state.rs: the fixed-layout encoding of Pool and StakeUser.  A byte is a *)
(* number in 0..255, a Pubkey an array of 32 bytes.                        *)
(***************************************************************************)
POOL_SIZE == 114

STAKE_USER_SIZE == 89

PUBKEY_BYTES == 32

TWO_64 == NAdd(U64_MAX, <<1>>)

pack_bool(boolean) == <<IF boolean THEN 1 ELSE 0>>

unpack_bool(src) ==
    IF src[1] = 0 THEN Fetched("Ok", FALSE)
    ELSE IF src[1] = 1 THEN Fetched("Ok", TRUE)
    ELSE Fetched("InvalidAccountData", FALSE)

\* The n low bytes of x, least significant first.
RECURSIVE to_le_bytes(_, _)
to_le_bytes(x, n) ==
    IF n = 0 THEN <<>>
    ELSE LET dm == NDivMod(x, <<256>>)
         IN  <<NSmall(dm.r)>> \o to_le_bytes(dm.q, n - 1)

\* The number whose bytes src[i..] are, least significant first.
RECURSIVE from_le_bytes(_, _)
from_le_bytes(src, i) ==
    IF i > Len(src) THEN <<>>
    ELSE NAdd(NMulLimb(from_le_bytes(src, i + 1), 256), N(src[i]))

\* The bytes of src in the opposite order.
reversed(src) == [i \in 1..Len(src) |-> src[Len(src) + 1 - i]]

u64_from_be_bytes(src) == from_le_bytes(reversed(src), 1)

\* The eight bytes of x, most significant first.
u64_to_be_bytes(x) == reversed(to_le_bytes(x, 8))

u64_to_le_bytes(x) == to_le_bytes(x, 8)

u64_from_le_bytes(src) == from_le_bytes(src, 1)

\* Two's complement.
i64_to_le_bytes(x) ==
    to_le_bytes(IF x.neg THEN NSub(TWO_64, x.mag) ELSE x.mag, 8)

i64_from_le_bytes(src) ==
    LET u == from_le_bytes(src, 1)
    IN  IF NLe(u, I64_MAX_MAG) THEN MkI64(FALSE, u)
        ELSE MkI64(TRUE, NSub(TWO_64, u))

Pool_pack_into_slice(self) ==
    pack_bool(self.is_initialized) \o <<self.bump_seed>>
        \o self.stake_token_mint \o self.reserved \o self.reward_mint
        \o u64_to_le_bytes(self.reward_numerator)
        \o u64_to_le_bytes(self.reward_denominator)

Pool_unpack_from_slice(src) ==
    LET is_initialized == unpack_bool(SubSeq(src, 1, 1))
    IN  IF is_initialized.res # "Ok" THEN Fetched(is_initialized.res, DefaultPool)
        ELSE Fetched("Ok",
                [is_initialized |-> is_initialized.v,
                 bump_seed |-> src[2],
                 stake_token_mint |-> SubSeq(src, 3, 34),
                 reserved |-> SubSeq(src, 35, 66),
                 reward_mint |-> SubSeq(src, 67, 98),
                 reward_numerator |-> u64_from_le_bytes(SubSeq(src, 99, 106)),
                 reward_denominator |-> u64_from_le_bytes(SubSeq(src, 107, 114))])

StakeUser_pack_into_slice(self) ==
    pack_bool(self.is_initialized) \o self.owner \o self.pool_pubkey
        \o u64_to_le_bytes(self.stake_amount)
        \o u64_to_le_bytes(self.reward_owed)
        \o i64_to_le_bytes(self.last_update)

StakeUser_unpack_from_slice(src) ==
    LET is_initialized == unpack_bool(SubSeq(src, 1, 1))
    IN  IF is_initialized.res # "Ok"
        THEN Fetched(is_initialized.res, DefaultStakeUser)
        ELSE Fetched("Ok",
                [is_initialized |-> is_initialized.v,
                 owner |-> SubSeq(src, 2, 33),
                 pool_pubkey |-> SubSeq(src, 34, 65),
                 stake_amount |-> u64_from_le_bytes(SubSeq(src, 66, 73)),
                 reward_owed |-> u64_from_le_bytes(SubSeq(src, 74, 81)),
                 last_update |-> i64_from_le_bytes(SubSeq(src, 82, 89))])

\* Pack::unpack_unchecked on a buffer: the length is compared with LEN
\* before unpack_from_slice reads it.
Pool_unpack_unchecked_bytes(input) ==
    IF Len(input) # POOL_SIZE THEN Fetched("InvalidAccountData", DefaultPool)
    ELSE Pool_unpack_from_slice(input)

StakeUser_unpack_unchecked_bytes(input) ==
    IF Len(input) # STAKE_USER_SIZE
    THEN Fetched("InvalidAccountData", DefaultStakeUser)
    ELSE StakeUser_unpack_from_slice(input)

(***************************************************************************)
(* The codec as a function of its inputs: a Pool and a StakeUser are       *)
(* drawn, packed into buffers of their sizes and unpacked again.           *)
(***************************************************************************)
KeyOf(b) == [i \in 1..PUBKEY_BYTES |-> b]

CodecKeys == {KeyOf(0), KeyOf(1), KeyOf(255), [i \in 1..PUBKEY_BYTES |-> i]}

CodecPools ==
    {[is_initialized |-> b, bump_seed |-> s, stake_token_mint |-> k,
      reserved |-> KeyOf(2), reward_mint |-> KeyOf(3),
      reward_numerator |-> n, reward_denominator |-> N(1000)] :
        b \in BOOLEAN, s \in {0, 255}, k \in {KeyOf(1), [i \in 1..PUBKEY_BYTES |-> i]},
        n \in {<<>>, N(1), U64_MAX}}

CodecUsers ==
    {[is_initialized |-> b, owner |-> k, pool_pubkey |-> KeyOf(2),
      stake_amount |-> a, reward_owed |-> N(100000000), last_update |-> t] :
        b \in BOOLEAN, k \in CodecKeys, a \in {<<>>, TEN_BILLION, U64_MAX},
        t \in {I(100), I(0 - 1), I64_MIN, I64_MAX}}

InitCodec ==
    /\ InitProgram
    /\ acc = AccIdle
    /\ \E p \in CodecPools, u \in CodecUsers :
          cod = [phase |-> "drawn", pool |-> p, user |-> u,
                 pool_bytes |-> <<>>, user_bytes |-> <<>>,
                 pool_out |-> Fetched("None", DefaultPool),
                 user_out |-> Fetched("None", DefaultStakeUser)]

CodecPack ==
    /\ cod.phase = "drawn"
    /\ cod' = [cod EXCEPT !.phase = "packed",
                          !.pool_bytes = Pool_pack_into_slice(cod.pool),
                          !.user_bytes = StakeUser_pack_into_slice(cod.user)]
    /\ UNCHANGED <<pool_data, user_data, token_data, clock, last, acc>>

CodecUnpack ==
    /\ cod.phase = "packed"
    /\ cod' = [cod EXCEPT
                 !.phase = "unpacked",
                 !.pool_out = Pool_unpack_unchecked_bytes(cod.pool_bytes),
                 !.user_out = StakeUser_unpack_unchecked_bytes(cod.user_bytes)]
    /\ UNCHANGED <<pool_data, user_data, token_data, clock, last, acc>>

NextCodec == CodecPack \/ CodecUnpack

SpecCodec == InitCodec /\ [][NextCodec]_vars

\* C10: a Pool is packed into 114 bytes and a StakeUser into 89 bytes, and
\* unpacking the packed bytes yields a value equal to the packed one in
\* every field.
C10_RoundTrip ==
    /\ cod.phase # "drawn" =>
          /\ Len(cod.pool_bytes) = 114
          /\ Len(cod.user_bytes) = 89
          /\ \A i \in 1..114 : cod.pool_bytes[i] \in 0..255
          /\ \A i \in 1..89 : cod.user_bytes[i] \in 0..255
    /\ cod.phase = "unpacked" =>
          /\ cod.pool_out = Fetched("Ok", cod.pool)
          /\ cod.user_out = Fetched("Ok", cod.user)

\* A pool with the largest numerator and a user with the most negative
\* last_update, packed and unpacked to themselves.
C10_Witness ==
    /\ cod.phase = "unpacked"
    /\ cod.pool.reward_numerator = U64_MAX
    /\ cod.user.last_update = I64_MIN
    /\ cod.user.stake_amount = TEN_BILLION
    /\ cod.pool_out.v = cod.pool
    /\ cod.user_out.v = cod.user

(***************************************************************************)
(* update_reward_owed as a function of its inputs: a StakeUser and a rate  *)
(* are drawn, and the function is called at drawn clock values.  trail     *)
(* keeps, per call, the clock value, the result and self before the call.  *)
(***************************************************************************)
MaxAccrueCalls == 2

AccrueStakes == {N(43200), TEN_BILLION, U64_MAX}

AccrueOwed == {<<>>, U64_MAX}

AccrueLastUpdates == {I(0), I(100)}

AccrueNumerators == {N(1), U64_MAX}

AccrueDenominators == {<<>>, N(1), N(1000)}

AccrueNows == {I64_MIN, I(0), I(1), I(2), I(100), I(DAILY_TS), I64_MAX}

InitAccrue ==
    /\ InitProgram
    /\ cod = CodIdle
    /\ \E s \in AccrueStakes, o \in AccrueOwed, l \in AccrueLastUpdates,
       n \in AccrueNumerators, d \in AccrueDenominators :
        acc = [self0 |-> [DefaultStakeUser EXCEPT !.is_initialized = TRUE,
                                                  !.stake_amount = s,
                                                  !.reward_owed = o,
                                                  !.last_update = l],
               self |-> [DefaultStakeUser EXCEPT !.is_initialized = TRUE,
                                                 !.stake_amount = s,
                                                 !.reward_owed = o,
                                                 !.last_update = l],
               numerator |-> n,
               denominator |-> d,
               trail |-> <<>>]

Accrue(now) ==
    /\ Len(acc.trail) < MaxAccrueCalls
    /\ LET out == update_reward_owed(acc.self, acc.numerator, acc.denominator, now)
       IN  acc' = [acc EXCEPT
                     !.self = out.self,
                     !.trail = Append(@, [now |-> now, res |-> out.res,
                                          before |-> acc.self])]
    /\ UNCHANGED <<pool_data, user_data, token_data, clock, last, cod>>

NextAccrue == \E now \in AccrueNows : Accrue(now)

SpecAccrue == InitAccrue /\ [][NextAccrue]_vars

\* self as the i-th call of the trail left it.
AccrueAfter(i) ==
    IF i = Len(acc.trail) THEN acc.self ELSE acc.trail[i + 1].before

\* The exact difference now - last_update of the i-th call.
AccrueElapsed(i) ==
    ISubExact(acc.trail[i].now, acc.trail[i].before.last_update)

\* floor(floor(numerator * stake_amount / denominator) * elapsed / 86400) in
\* unbounded arithmetic; denominator is not zero and elapsed is positive.
ExactDelta(numerator, stake_amount, denominator, elapsed) ==
    NDiv(NMul(NDiv(NMul(numerator, stake_amount), denominator), elapsed.mag),
         N(86400))

\* C4: a call of update_reward_owed that returns Ok with now - last_update > 0
\* adds exactly floor(floor(numerator * stake_amount / denominator) * elapsed
\* / 86400) to reward_owed, sets last_update to now and changes nothing else.
C4_AccrualExact ==
    \A i \in 1..Len(acc.trail) :
        LET e == acc.trail[i]
        IN  (e.res = "Ok" /\ IPos(AccrueElapsed(i))) =>
                AccrueAfter(i) =
                    [e.before EXCEPT
                       !.reward_owed =
                           NAdd(e.before.reward_owed,
                                ExactDelta(acc.numerator, e.before.stake_amount,
                                           acc.denominator, AccrueElapsed(i))),
                       !.last_update = e.now]

\* A successful accrual over a positive period that added a positive amount.
C4_Witness ==
    \E i \in 1..Len(acc.trail) :
        /\ acc.trail[i].res = "Ok"
        /\ IPos(AccrueElapsed(i))
        /\ NLt(acc.trail[i].before.reward_owed, AccrueAfter(i).reward_owed)
        /\ AccrueAfter(i).last_update = acc.trail[i].now

\* The calls of the trail made on a record with stake_amount = u64::MAX
\* against the numerator u64::MAX.
MaxedCalls ==
    {i \in 1..Len(acc.trail) :
        acc.trail[i].before.stake_amount = U64_MAX /\ acc.numerator = U64_MAX}

\* C6 (as amended): with stake_amount = u64::MAX and numerator = u64::MAX,
\* update_reward_owed fails with CalculationFailure whenever now - last_update
\* is positive or overflows, for every denominator; otherwise it returns Ok
\* without touching the record.  In neither case is reward_owed changed, so
\* no wrapped value is ever stored.
C6_MaxedAccrualFails ==
    \A i \in MaxedCalls :
        /\ AccrueAfter(i) = acc.trail[i].before
        /\ acc.trail[i].res =
              IF IsI64(AccrueElapsed(i)) /\ ~IPos(AccrueElapsed(i))
              THEN "Ok" ELSE "CalculationFailure"

\* A maxed call over a positive period that failed with CalculationFailure.
C6_Witness ==
    \E i \in MaxedCalls :
        /\ IsI64(AccrueElapsed(i)) /\ IPos(AccrueElapsed(i))
        /\ acc.trail[i].res = "CalculationFailure"
        /\ AccrueAfter(i).reward_owed = acc.trail[i].before.reward_owed

\* C6 as stated: every maxed call fails with CalculationFailure, whatever
\* last_update and now are.
C6_AsStated ==
    \A i \in MaxedCalls : acc.trail[i].res = "CalculationFailure"

\* The arithmetic failures of the i-th call, each decided in unbounded
\* arithmetic in the order of the computation.
SubOverflows(i) == ~IsI64(AccrueElapsed(i))

Accrues(i) == IsI64(AccrueElapsed(i)) /\ IPos(AccrueElapsed(i))

FirstProduct(i) == NMul(acc.numerator, acc.trail[i].before.stake_amount)

FirstMulOverflows(i) == Accrues(i) /\ ~IsU64(FirstProduct(i))

DividesByZero(i) ==
    Accrues(i) /\ IsU64(FirstProduct(i)) /\ acc.denominator = <<>>

SecondProduct(i) ==
    NMul(NDiv(FirstProduct(i), acc.denominator), AccrueElapsed(i).mag)

SecondMulOverflows(i) ==
    /\ Accrues(i) /\ IsU64(FirstProduct(i)) /\ acc.denominator # <<>>
    /\ ~IsU64(SecondProduct(i))

AddOverflows(i) ==
    /\ Accrues(i) /\ IsU64(FirstProduct(i)) /\ acc.denominator # <<>>
    /\ IsU64(SecondProduct(i))
    /\ ~IsU64(NAdd(NDiv(SecondProduct(i), N(86400)),
                   acc.trail[i].before.reward_owed))

ArithmeticFails(i) ==
    \/ SubOverflows(i)
    \/ FirstMulOverflows(i)
    \/ DividesByZero(i)
    \/ SecondMulOverflows(i)
    \/ AddOverflows(i)

\* C7: update_reward_owed returns Ok or CalculationFailure and never panics;
\* it returns CalculationFailure exactly when now - last_update overflows,
\* a multiplication overflows, the denominator is zero or the final addition
\* overflows, and then the record is left as it was.
C7_ArithmeticFailure ==
    \A i \in 1..Len(acc.trail) :
        /\ acc.trail[i].res \in {"Ok", "CalculationFailure"}
        /\ ArithmeticFails(i) <=> acc.trail[i].res = "CalculationFailure"
        /\ ArithmeticFails(i) => AccrueAfter(i) = acc.trail[i].before

\* Two calls on one record: the first fails on the overflow of
\* now - last_update, the second on the overflow of the final addition.
C7_Witness ==
    /\ Len(acc.trail) = 2
    /\ SubOverflows(1) /\ acc.trail[1].res = "CalculationFailure"
    /\ AddOverflows(2) /\ acc.trail[2].res = "CalculationFailure"
    /\ acc.self = acc.self0

\* C8: when now - last_update does not overflow and is zero or negative,
\* update_reward_owed returns Ok and changes no field; and a call at the
\* same now as the call before it changes no field.
C8_NoElapsedNoChange ==
    \A i \in 1..Len(acc.trail) :
        /\ (IsI64(AccrueElapsed(i)) /\ ~IPos(AccrueElapsed(i))) =>
               /\ acc.trail[i].res = "Ok"
               /\ AccrueAfter(i) = acc.trail[i].before
        /\ (i > 1 /\ acc.trail[i - 1].now = acc.trail[i].now) =>
               AccrueAfter(i) = acc.trail[i].before

\* An accrual that added to reward_owed, followed by a call at the same now
\* that returned Ok.
C8_Witness ==
    /\ Len(acc.trail) = 2
    /\ acc.trail[1].now = acc.trail[2].now
    /\ acc.trail[1].res = "Ok" /\ acc.trail[2].res = "Ok"
    /\ NLt(acc.self0.reward_owed, acc.trail[2].before.reward_owed)
    /\ acc.self = acc.trail[2].before

\* The trail is a chain of successful accruals over consecutive positive
\* periods t0 < t1 < ... < tk starting from self0.
SplitChain ==
    /\ Len(acc.trail) >= 2
    /\ \A i \in 1..Len(acc.trail) : acc.trail[i].res = "Ok" /\ Accrues(i)

\* One accrual of self0 over the whole period [t0, tk].
Direct ==
    update_reward_owed(acc.self0, acc.numerator, acc.denominator,
                       acc.trail[Len(acc.trail)].now)

\* C9: when a chain of k successful accruals and the single accrual over the
\* same period both succeed, the chain's reward_owed is never larger than
\* the single accrual's and is at most k - 1 smaller (1 for two steps).
C9_SplitWithinOnePerStep ==
    (SplitChain /\ Direct.res = "Ok") =>
        /\ NLe(acc.self.reward_owed, Direct.self.reward_owed)
        /\ NLe(Direct.self.reward_owed,
               NAdd(acc.self.reward_owed, N(Len(acc.trail) - 1)))
        /\ acc.self.last_update = Direct.self.last_update

\* Two steps whose total is exactly 1 smaller than the single accrual's.
C9_Witness ==
    /\ SplitChain /\ Direct.res = "Ok" /\ Len(acc.trail) = 2
    /\ Direct.self.reward_owed = NAdd(acc.self.reward_owed, N(1))

(***************************************************************************)
(* instruction.rs: the encoding of the instructions, and process, which    *)
(* decodes the input and calls the handler.                                *)
(***************************************************************************)
\* Result<(value, rest), ProgramError> of unpack_u8 and unpack_u64.
Unpacked(res, v, rest) == [res |-> res, v |-> v, rest |-> rest]

unpack_u8(input) ==
    IF input = <<>> THEN Unpacked("InstructionUnpackError", 0, <<>>)
    ELSE Unpacked("Ok", input[1], SubSeq(input, 2, Len(input)))

\* unpack_u64 that reads a short input as if zero bytes followed it.
unpack_u64_padded(input) ==
    Unpacked("Ok",
             u64_from_le_bytes(SubSeq(input \o <<0, 0, 0, 0, 0, 0, 0, 0>>, 1, 8)),
             SubSeq(input, 9, Len(input)))

unpack_u64(input) ==
    IF Len(input) < 8 THEN Unpacked("InstructionUnpackError", <<>>, <<>>)
    ELSE Unpacked("Ok", u64_from_le_bytes(SubSeq(input, 1, 8)),
                  SubSeq(input, 9, Len(input)))

\* A value of InstructionType: data is the InitData of CreatePool, the
\* amount of Stake and Unstake, and empty otherwise.
Instruction(type, data) == [type |-> type, data |-> data]

NoInstruction == Instruction("None", <<>>)

\* The CreatePool arm of InstructionType::unpack from the three fields on.
unpack_init_data(bump_seed, reward_numerator, reward_denominator) ==
    IF bump_seed.res # "Ok" THEN Fetched(bump_seed.res, NoInstruction)
    ELSE IF reward_numerator.res # "Ok"
    THEN Fetched(reward_numerator.res, NoInstruction)
    ELSE IF reward_denominator.res # "Ok"
    THEN Fetched(reward_denominator.res, NoInstruction)
    ELSE Fetched("Ok", Instruction("CreatePool",
                     [bump_seed |-> bump_seed.v,
                      reward_numerator |-> reward_numerator.v,
                      reward_denominator |-> reward_denominator.v]))

\* The Stake and Unstake arms from the amount on.
unpack_stake_data(type, amount) ==
    IF amount.res # "Ok" THEN Fetched(amount.res, NoInstruction)
    ELSE Fetched("Ok", Instruction(type, amount.v))

InstructionType_unpack(input) ==
    IF input = <<>> THEN Fetched("IncorrectInstruction", NoInstruction)
    ELSE IF input[1] = 1
    THEN unpack_init_data(
             unpack_u8(Tail(input)),
             unpack_u64(unpack_u8(Tail(input)).rest),
             unpack_u64(unpack_u64(unpack_u8(Tail(input)).rest).rest))
    ELSE IF input[1] = 2 THEN Fetched("Ok", Instruction("CreateStakeUser", <<>>))
    ELSE IF input[1] = 3 THEN unpack_stake_data("Stake", unpack_u64(Tail(input)))
    ELSE IF input[1] = 4 THEN unpack_stake_data("Unstake", unpack_u64(Tail(input)))
    ELSE IF input[1] = 5 THEN Fetched("Ok", Instruction("Claim", <<>>))
    ELSE IF input[1] = 6 THEN Fetched("Ok", Instruction("Refresh", <<>>))
    ELSE Fetched("IncorrectInstruction", NoInstruction)

InstructionType_pack(instruction) ==
    IF instruction.type = "CreatePool"
    THEN <<1, instruction.data.bump_seed>>
         \o u64_to_le_bytes(instruction.data.reward_numerator)
         \o u64_to_le_bytes(instruction.data.reward_denominator)
    ELSE IF instruction.type = "CreateStakeUser" THEN <<2>>
    ELSE IF instruction.type = "Stake"
    THEN <<3>> \o u64_to_le_bytes(instruction.data)
    ELSE IF instruction.type = "Unstake"
    THEN <<4>> \o u64_to_le_bytes(instruction.data)
    ELSE IF instruction.type = "Claim" THEN <<5>>
    ELSE <<6>>

\* process from the decoded instruction on.
process_unpacked(program_id, st, accounts, instruction) ==
    IF instruction.res # "Ok" THEN Err(instruction.res, st)
    ELSE IF instruction.v.type = "CreatePool"
    THEN process_create_stake_pool(program_id, st, accounts, instruction.v.data)
    ELSE IF instruction.v.type = "CreateStakeUser"
    THEN process_create_stake_user(program_id, st, accounts)
    ELSE IF instruction.v.type = "Stake"
    THEN process_stake(program_id, st, accounts, instruction.v.data)
    ELSE IF instruction.v.type = "Unstake"
    THEN process_unstake(program_id, st, accounts, instruction.v.data)
    ELSE IF instruction.v.type = "Claim"
    THEN process_claim(program_id, st, accounts)
    ELSE process_refresh(program_id, st, accounts)

process(program_id, st, accounts, input) ==
    process_unpacked(program_id, st, accounts, InstructionType_unpack(input))

\* A host that copies the account buffers back whatever the program
\* returned.
do_process_instruction_keeping(st, o) == o.st

\* The host around one instruction: the account buffers are copied back to
\* the ledger only when the program returned Ok.
do_process_instruction(st, o) == IF o.res = "Ok" THEN o.st ELSE st

(***************************************************************************)
(* Decoding as a function of its input: an input is drawn, decoded, and    *)
(* sent to process on the ledger as it is before any instruction.          *)
(***************************************************************************)
DecodeTags == {0, 1, 2, 3, 4, 5, 6, 7, 255}

DecodeLengths == {0, 1, 7, 8, 9, 16, 17, 18}

\* Payloads of 18 bytes: the InitData of pool A and an amount of 10^10, each
\* followed by bytes no instruction reads.
DecodePayloads ==
    {Tail(InstructionType_pack(Instruction("CreatePool", InitDataOf("poolA"))))
         \o <<7>>,
     u64_to_le_bytes(TEN_BILLION) \o <<9, 0, 0, 0, 0, 0, 0, 0, 0, 1>>}

DecodeInputs ==
    {<<>>} \cup {<<t>> \o SubSeq(p, 1, n) :
                    t \in DecodeTags, p \in DecodePayloads, n \in DecodeLengths}

\* The accounts sent with an input: those of the instruction its tag names.
DecodeAccounts(input) ==
    IF input # <<>> /\ input[1] = 2
    THEN create_stake_user_accounts("poolA", "user1", "alice")
    ELSE IF input # <<>> /\ input[1] = 3
    THEN stake_accounts("poolA", "user1", "alice", "alice", "alice_stake",
                        "reserveA")
    ELSE IF input # <<>> /\ input[1] = 6
    THEN refresh_accounts("poolA", <<"user1">>)
    ELSE create_stake_pool_accounts("poolA", "authA", "stake_mint", "reserveA",
                                    "reward_mintA")

InitDecode ==
    /\ InitProgram
    /\ acc = AccIdle
    /\ \E input \in DecodeInputs :
          cod = [phase |-> "drawn", input |-> input,
                 decoded |-> Fetched("None", NoInstruction), res |-> "None"]

DecodeInput ==
    /\ cod.phase = "drawn"
    /\ cod' = [cod EXCEPT !.phase = "decoded",
                          !.decoded = InstructionType_unpack(cod.input)]
    /\ UNCHANGED <<pool_data, user_data, token_data, clock, last, acc>>

\* The ledger after the host ran the instruction whose outcome is o.
ProcessedInput(o, st) ==
    /\ pool_data' = st.pool_data
    /\ user_data' = st.user_data
    /\ token_data' = st.token_data
    /\ cod' = [cod EXCEPT !.phase = "processed", !.res = o.res]
    /\ UNCHANGED <<clock, last, acc>>

ProcessInput ==
    /\ cod.phase = "decoded"
    /\ ProcessedInput(
           process(PROGRAM_ID, St, DecodeAccounts(cod.input), cod.input),
           do_process_instruction(St,
               process(PROGRAM_ID, St, DecodeAccounts(cod.input), cod.input)))

NextDecode == DecodeInput \/ ProcessInput

SpecDecode == InitDecode /\ [][NextDecode]_vars

\* The ledger holds no initialized record and the token accounts are as
\* they were before any instruction.
LedgerUntouched ==
    /\ pool_data = [k \in PoolKeys |-> DefaultPool]
    /\ user_data = [k \in UserKeys |-> DefaultStakeUser]
    /\ token_data = InitTokenData

\* C11: an empty input and a tag outside 1..6 decode to IncorrectInstruction;
\* tag 1 decodes to InstructionUnpackError with fewer than 17 payload bytes
\* and to CreatePool otherwise; tags 3 and 4 decode to InstructionUnpackError
\* with fewer than 8 payload bytes and to Stake / Unstake otherwise; tags 2,
\* 5 and 6 decode whatever follows them; and process returns the error of a
\* failed decoding and leaves every record as it was.
C11_DecodeRejects ==
    cod.phase \in {"decoded", "processed"} =>
        /\ (cod.input = <<>> \/ cod.input[1] \notin 1..6)
              <=> cod.decoded.res = "IncorrectInstruction"
        /\ (cod.input # <<>> /\ cod.input[1] = 1) =>
              IF Len(cod.input) - 1 < 17
              THEN cod.decoded.res = "InstructionUnpackError"
              ELSE cod.decoded.res = "Ok" /\ cod.decoded.v.type = "CreatePool"
        /\ (cod.input # <<>> /\ cod.input[1] \in {3, 4}) =>
              IF Len(cod.input) - 1 < 8
              THEN cod.decoded.res = "InstructionUnpackError"
              ELSE /\ cod.decoded.res = "Ok"
                   /\ cod.decoded.v.type = (IF cod.input[1] = 3 THEN "Stake"
                                            ELSE "Unstake")
        /\ (cod.input # <<>> /\ cod.input[1] \in {2, 5, 6}) =>
              cod.decoded.res = "Ok"
        /\ (cod.phase = "processed" /\ cod.decoded.res # "Ok") =>
              cod.res = cod.decoded.res /\ LedgerUntouched

\* A CreatePool input one byte short was sent with the accounts of a valid
\* CreatePool and process returned InstructionUnpackError.
C11_Witness ==
    /\ cod.phase = "processed"
    /\ Len(cod.input) = 17
    /\ cod.input[1] = 1
    /\ cod.res = "InstructionUnpackError"
    /\ LedgerUntouched

(***************************************************************************)
(* Properties of the handlers in the reachable ledgers, continued.         *)
(***************************************************************************)
\* The InitData a CreatePool may carry.
ProbeInitData ==
    {InitDataOf(p) : p \in PoolKeys}
        \cup {[bump_seed |-> 254, reward_numerator |-> U64_MAX,
               reward_denominator |-> ONE]}

\* CreatePool on the initialized pool p and CreateStakeUser on the
\* initialized stake user u, whatever the other accounts are.
RecreatedPool(p) ==
    \A authority \in {Authority(p), "authA_254", "alice"},
       reserve \in {Reserve(p), "alice_stake", "giftA"},
       reward_mint \in {RewardMint(p), "other_mint"},
       init_data \in ProbeInitData :
        Refused(process_create_stake_pool(PROGRAM_ID, St,
                    create_stake_pool_accounts(p, authority, "stake_mint",
                                               reserve, reward_mint),
                    init_data),
                "AlreadyInUse")

RecreatedUser(u) ==
    \A p \in PoolKeys, w \in Wallets, signed \in BOOLEAN :
        Refused(process_create_stake_user(PROGRAM_ID, St,
                    <<Acct(p, FALSE), Acct(u, FALSE), Acct(w, signed),
                      Acct(RENT_SYSVAR, FALSE)>>),
                "AlreadyInUse")

\* C12: CreatePool on an initialized pool record and CreateStakeUser on an
\* initialized stake-user record fail with AlreadyInUse and change nothing;
\* no step changes an initialized pool record, or the owner or the pool of an
\* initialized stake-user record, and no CreatePool or CreateStakeUser step
\* changes an initialized stake-user record at all.
C12_AlreadyInUse ==
    /\ [](/\ \A p \in PoolKeys : pool_data[p].is_initialized => RecreatedPool(p)
          /\ \A u \in UserKeys : user_data[u].is_initialized => RecreatedUser(u))
    /\ [][/\ \A p \in PoolKeys :
                pool_data[p].is_initialized => pool_data'[p] = pool_data[p]
          /\ \A u \in UserKeys :
                user_data[u].is_initialized =>
                   /\ user_data'[u].is_initialized
                   /\ user_data'[u].owner = user_data[u].owner
                   /\ user_data'[u].pool_pubkey = user_data[u].pool_pubkey
                   /\ last'.op \in {"CreatePool", "CreateStakeUser"} =>
                         user_data'[u] = user_data[u]]_vars

\* A stake user with a stake and an accrued reward, in an initialized pool:
\* re-creating either record is refused.
C12_Witness ==
    \E u \in ActiveUsers :
        /\ user_data[u].stake_amount # <<>>
        /\ user_data[u].reward_owed # <<>>
        /\ RecreatedUser(u)
        /\ RecreatedPool(user_data[u].pool_pubkey)

\* The pools whose record is not initialized.
FreePools == {p \in PoolKeys : ~pool_data[p].is_initialized}

\* Token accounts of the staking mint a CreatePool may name as its reserve,
\* and mints it may name as its reward mint.
ProbeReserves == {"reserveA", "reserveB", "alice_stake", "bob_stake", "giftA"}

ProbeRewardMints == MintKeys

\* CreatePool of the free pool p, valid but for the reserve and the reward
\* mint it names.
CreatePoolWith(p, reserve, reward_mint) ==
    process_create_stake_pool(PROGRAM_ID, St,
        create_stake_pool_accounts(p, Authority(p), "stake_mint", reserve,
                                   reward_mint),
        InitDataOf(p))

\* A valid Stake of u, with the given wallet as the transfer authority.
StakeBy(u, authority, amount) ==
    process_stake(PROGRAM_ID, St,
        stake_accounts(user_data[u].pool_pubkey, u, authority, user_data[u].owner,
                       StakeToken(user_data[u].owner),
                       pool_data[user_data[u].pool_pubkey].reserved),
        amount)

\* A valid Unstake of u, but from the given source.
UnstakeFrom(u, source, amount) ==
    process_unstake(PROGRAM_ID, St,
        unstake_accounts(user_data[u].pool_pubkey, u, DerivedAuthority(u),
                         user_data[u].owner, source,
                         StakeToken(user_data[u].owner)),
        amount)

\* The ledger st in which the token account holds as much as a token account
\* can hold, so that the token service refuses to credit it.
Filled(st, account) ==
    [st EXCEPT !.token_data.tok[account].amount = U64_MAX]

\* A valid Claim of u on the ledger st.
ClaimOn(st, u) ==
    process_claim(PROGRAM_ID, st, ClaimAccountsOf(u, DerivedAuthority(u)))

\* C13: CreatePool returns TokenInitializeAccountFailed when the reserve it
\* names is already initialized, and TokenInitializeMintFailed when the
\* reserve is free and the reward mint is already initialized; a Stake the
\* token service refuses because the transfer authority does not own the
\* source, and an Unstake it refuses because the derived authority does not
\* own the source, return TokenTransferFailed; a Claim it refuses because
\* the destination cannot hold the reward returns TokenMintToFailed.
C13_TokenFailureMapped ==
    /\ \A p \in FreePools, reserve \in ProbeReserves,
          reward_mint \in ProbeRewardMints :
          CreatePoolWith(p, reserve, reward_mint).res =
             IF token_data.tok[reserve].state # "Uninitialized"
             THEN "TokenInitializeAccountFailed"
             ELSE IF token_data.mint[reward_mint].is_initialized
             THEN "TokenInitializeMintFailed"
             ELSE "Ok"
    /\ \A u \in ActiveUsers, a \in StakeAmounts :
          /\ \A w \in Wallets \ {user_data[u].owner} :
                StakeBy(u, w, a).res =
                   IF StakeBy(u, user_data[u].owner, a).res = "Ok"
                   THEN "TokenTransferFailed"
                   ELSE StakeBy(u, user_data[u].owner, a).res
          /\ \A source \in {"alice_stake", "bob_stake"} :
                /\ UnstakeFrom(u, source, a).res # "Ok"
                /\ (/\ NLe(a, token_data.tok[source].amount)
                    /\ NLe(a, user_data[u].stake_amount)
                    /\ ~UnstakeAccrualFails(u))
                   => UnstakeFrom(u, source, a).res = "TokenTransferFailed"
    /\ \A u \in ActiveUsers :
          ClaimOn(Filled(St, RewardToken(user_data[u].owner,
                                         user_data[u].pool_pubkey)), u).res =
             IF ClaimOn(St, u).res = "Ok" THEN "TokenMintToFailed"
             ELSE ClaimOn(St, u).res

\* One pool is free and a user of the other has a stake and a reward to
\* claim: each of the four failures of the token service is returned under
\* its own error.
C13_Witness ==
    /\ \E p \in FreePools :
          /\ CreatePoolWith(p, "alice_stake", RewardMint(p)).res
                = "TokenInitializeAccountFailed"
          /\ CreatePoolWith(p, Reserve(p), "other_mint").res
                = "TokenInitializeMintFailed"
    /\ \E u \in ActiveUsers :
          /\ StakeBy(u, "bob", TEN_BILLION).res = "TokenTransferFailed"
          /\ UnstakeFrom(u, "alice_stake", TEN_BILLION).res = "TokenTransferFailed"
          /\ ClaimOn(St, u).res = "Ok"
          /\ ClaimOn(Filled(St, RewardToken(user_data[u].owner,
                                            user_data[u].pool_pubkey)), u).res
                = "TokenMintToFailed"

\* A valid CreatePool of p on the ledger st.
CreatePoolOn(st, p) ==
    process_create_stake_pool(PROGRAM_ID, st,
        create_stake_pool_accounts(p, Authority(p), "stake_mint", Reserve(p),
                                   RewardMint(p)),
        InitDataOf(p))

\* C14: on the ledger the host leaves after a CreatePool of a free pool that
\* failed, the pool record is as it was, not initialized, and a valid
\* CreatePool of the same pool returns Ok.
C14_FailedCreateLeavesFree ==
    \A p \in FreePools, reserve \in ProbeReserves,
       reward_mint \in ProbeRewardMints :
        CreatePoolWith(p, reserve, reward_mint).res # "Ok" =>
            /\ do_process_instruction(St, CreatePoolWith(p, reserve, reward_mint))
                  .pool_data[p] = pool_data[p]
            /\ CreatePoolOn(
                  do_process_instruction(St,
                      CreatePoolWith(p, reserve, reward_mint)), p).res = "Ok"

\* A CreatePool failed in init_mint: its buffers hold the encoded,
\* initialized Pool record and the initialized reserve, the ledger does not,
\* and the valid CreatePool that follows returns Ok.
C14_Witness ==
    \E p \in FreePools :
        /\ CreatePoolWith(p, Reserve(p), "other_mint").res
              = "TokenInitializeMintFailed"
        /\ CreatePoolWith(p, Reserve(p), "other_mint").st.pool_data[p].is_initialized
        /\ CreatePoolWith(p, Reserve(p), "other_mint").st
              .token_data.tok[Reserve(p)].state = "Initialized"
        /\ CreatePoolWith(p, "alice_stake", RewardMint(p)).st.pool_data[p].is_initialized
        /\ ~do_process_instruction(St, CreatePoolWith(p, Reserve(p), "other_mint"))
               .pool_data[p].is_initialized
        /\ CreatePoolOn(do_process_instruction(St,
               CreatePoolWith(p, Reserve(p), "other_mint")), p).res = "Ok"

\* The pools whose record is initialized.
LivePools == {p \in PoolKeys : pool_data[p].is_initialized}

\* The lists of accounts a Refresh may carry after the clock: stake-user
\* records in either order, and accounts the program does not own.
ProbeUserLists ==
    UserLists \cup {<<"user2", "user1">>, <<"alice", "user1">>,
                    <<"reserveA", "user2">>}

RefreshOf(p, users) ==
    process_refresh(PROGRAM_ID, St, refresh_accounts(p, users))

\* The record at address k is one Refresh of pool p accrues: owned by the
\* program, initialized, of pool p and with a stake.
Accruable(p, k) ==
    /\ k \in UserKeys
    /\ user_data[k].is_initialized
    /\ user_data[k].pool_pubkey = p
    /\ user_data[k].stake_amount # <<>>

\* The outcome of the accrual Refresh of pool p runs on the record at k.
AccrualOf(p, k) ==
    update_reward_owed(user_data[k], pool_data[p].reward_numerator,
                       pool_data[p].reward_denominator, clock)

\* C15 as stated: a Refresh of an initialized pool returns Ok or
\* CalculationFailure, the latter only when the accrual of a record of the
\* pool fails; every record that is not owned by the program, is not
\* initialized or is of another pool is left as it was.
C15_AsStated ==
    \A p \in LivePools, users \in ProbeUserLists :
        /\ RefreshOf(p, users).res \in {"Ok", "CalculationFailure"}
        /\ RefreshOf(p, users).res = "CalculationFailure" =>
              \E i \in 1..Len(users) :
                  Accruable(p, users[i]) /\ AccrualOf(p, users[i]).res # "Ok"
        /\ \A i \in 1..Len(users) :
              (users[i] \in UserKeys /\ ~Accruable(p, users[i])) =>
                  RefreshOf(p, users).st.user_data[users[i]] = user_data[users[i]]

\* Refresh of pool p fails on the record at address k: the record is owned
\* by the program and does not unpack, or its accrual fails.
RefreshFails(p, k) ==
    /\ k \in UserKeys
    /\ \/ ~user_data[k].is_initialized
       \/ Accruable(p, k) /\ AccrualOf(p, k).res # "Ok"

\* The place in users of the first record Refresh of pool p fails on, and
\* Len(users) + 1 when there is none.
FirstFailure(p, users) ==
    IF \E k \in 1..Len(users) : RefreshFails(p, users[k])
    THEN CHOOSE k \in 1..Len(users) :
             /\ RefreshFails(p, users[k])
             /\ \A j \in 1..(k - 1) : ~RefreshFails(p, users[j])
    ELSE Len(users) + 1

\* The record at address k after Refresh of pool p went over it.
Refreshed(p, k) ==
    IF Accruable(p, k) THEN AccrualOf(p, k).self ELSE user_data[k]

\* C16: a Refresh over r1..rn that fails on rk hands back buffers in which
\* every record before rk is as its own accrual left it and rk..rn are as
\* they were; a Refresh that fails on no record returns Ok with every record
\* as its own accrual left it.
C16_RefreshKeepsEarlier ==
    \A p \in LivePools, users \in ProbeUserLists :
        /\ RefreshOf(p, users).res = "Ok" <=> FirstFailure(p, users) > Len(users)
        /\ \A i \in 1..Len(users) :
              users[i] \in UserKeys =>
                 RefreshOf(p, users).st.user_data[users[i]] =
                    IF i < FirstFailure(p, users) THEN Refreshed(p, users[i])
                    ELSE user_data[users[i]]

\* A Refresh over two records accrued a reward on the first and failed on
\* the second: the buffer of the first holds the new reward_owed and
\* last_update.
C16_Witness ==
    \E p \in LivePools, users \in ProbeUserLists :
        /\ Len(users) = 2
        /\ users[1] \in UserKeys /\ users[2] \in UserKeys
        /\ FirstFailure(p, users) = 2
        /\ RefreshOf(p, users).res # "Ok"
        /\ NLt(user_data[users[1]].reward_owed,
               RefreshOf(p, users).st.user_data[users[1]].reward_owed)
        /\ RefreshOf(p, users).st.user_data[users[1]].last_update = clock
        /\ user_data[users[1]].last_update # clock
        /\ RefreshOf(p, users).st.user_data[users[2]] = user_data[users[2]]

\* The handler changed no stake-user record and asked the token service for
\* nothing.
Unmoved(o) == o.res # "Ok" \/ (o.st.user_data = user_data /\ o.cpi = <<>>)

\* Stake, Unstake, Claim and Refresh for the stake user u sent with the
\* pool p, its reserve, its reward mint and its derived authority.
StakeAt(p, u, amount) ==
    process_stake(PROGRAM_ID, St,
        stake_accounts(p, u, user_data[u].owner, user_data[u].owner,
                       StakeToken(user_data[u].owner), pool_data[p].reserved),
        amount)

UnstakeAt(p, u, amount) ==
    process_unstake(PROGRAM_ID, St,
        unstake_accounts(p, u, Authority(p), user_data[u].owner,
                         pool_data[p].reserved, StakeToken(user_data[u].owner)),
        amount)

ClaimAt(p, u) ==
    process_claim(PROGRAM_ID, St,
        claim_accounts(p, u, user_data[u].owner, Authority(p),
                       pool_data[p].reward_mint,
                       RewardToken(user_data[u].owner, p)))

\* C17 as stated: Stake, Unstake, Claim and Refresh sent with a pool other
\* than the one the stake-user record names fail, or change no stake-user
\* record and move no tokens.
C17_AsStated ==
    \A u \in ActiveUsers :
        \A p \in LivePools \ {user_data[u].pool_pubkey} :
            /\ \A a \in StakeAmounts : Unmoved(StakeAt(p, u, a))
            /\ \A a \in UnstakeAmounts : Unmoved(UnstakeAt(p, u, a))
            /\ Unmoved(ClaimAt(p, u))
            /\ Unmoved(RefreshOf(p, <<u>>))

(***************************************************************************)
(* The ledger when a Stake or an Unstake may name any pool with any stake  *)
(* user: the client chooses the accounts of an instruction.                *)
(***************************************************************************)
NextPools ==
    \/ \E p \in PoolKeys : CreatePool(p, InitDataOf(p))
    \/ \E p \in PoolKeys, u \in UserKeys : CreateStakeUser(p, u, WalletOf(u))
    \/ \E p \in PoolKeys, u \in UserKeys, a \in StakeAmounts :
          Stake(p, u, WalletOf(u), a)
    \/ \E p \in PoolKeys, u \in UserKeys, a \in UnstakeAmounts :
          Unstake(p, u, WalletOf(u), a)

SpecPools == Init /\ [][NextPools]_vars

\* What the stake-user record at u says is staked in pool p.
StakedIn(p, u) ==
    IF user_data[u].is_initialized /\ user_data[u].pool_pubkey = p
    THEN user_data[u].stake_amount
    ELSE <<>>

\* C18 as stated: the reserve of every initialized pool holds the sum of
\* stake_amount over the stake-user records that name the pool.
C18_AsStated ==
    \A p \in LivePools :
        token_data.tok[pool_data[p].reserved].amount =
            NAdd(StakedIn(p, "user1"), StakedIn(p, "user2"))

\* C19 as stated: a successful Unstake asks the token service for exactly
\* one transfer, of the amount of the instruction, from the reserve of the
\* pool it names and signed for that pool's derived authority; and a valid
\* Unstake whose source is another token account than the pool's reserve
\* does not succeed.
C19_AsStated ==
    /\ last.op = "Unstake" =>
          /\ Len(last.cpi) = 1
          /\ last.cpi[1].call = "transfer"
          /\ last.cpi[1].amount = last.data
          /\ last.cpi[1].source = pool_data[last.accounts[1].key].reserved
          /\ Some(last.cpi[1].authority) =
                create_program_address(last.accounts[1].key,
                    pool_data[last.accounts[1].key].bump_seed, PROGRAM_ID)
    /\ \A u \in ActiveUsers, a \in UnstakeAmounts :
          \A source \in ProbeReserves
                \ {pool_data[user_data[u].pool_pubkey].reserved} :
              UnstakeFrom(u, source, a).res # "Ok"

\* accounts with the signature of the account at place i taken away.
Unsigned(accounts, i) ==
    [accounts EXCEPT ![i] = Acct(accounts[i].key, FALSE)]

\* accounts with the signing wallet w at place i.
OwnerOf(accounts, i, w) == [accounts EXCEPT ![i] = Acct(w, TRUE)]

\* The accounts of a valid Stake of u.
StakeAccountsOf(u) ==
    stake_accounts(user_data[u].pool_pubkey, u, user_data[u].owner,
                   user_data[u].owner, StakeToken(user_data[u].owner),
                   pool_data[user_data[u].pool_pubkey].reserved)

\* C20: a Stake, an Unstake and a Claim that are valid but for the stake
\* owner account fail with InvalidSigner when that account is the record's
\* owner and did not sign, and with InvalidStakeOwner when it signed and is
\* not the record's owner; CreateStakeUser of a free record fails with
\* InvalidSigner when the owner account did not sign; in each case nothing
\* is written and the token service is asked for nothing.  The owner
\* account of the last successful Stake, Unstake or Claim is the owner of
\* its stake-user record and signed.
C20_OwnerMustSign ==
    /\ \A u \in ActiveUsers, a \in StakeAmounts :
          /\ Refused(process_stake(PROGRAM_ID, St,
                         Unsigned(StakeAccountsOf(u), 4), a), "InvalidSigner")
          /\ Refused(process_unstake(PROGRAM_ID, St,
                         Unsigned(UnstakeAccountsOf(u, DerivedAuthority(u)), 4), a),
                     "InvalidSigner")
          /\ Refused(process_claim(PROGRAM_ID, St,
                         Unsigned(ClaimAccountsOf(u, DerivedAuthority(u)), 3)),
                     "InvalidSigner")
          /\ \A w \in (Wallets \cup {"authA"}) \ {user_data[u].owner} :
                /\ Refused(process_stake(PROGRAM_ID, St,
                               OwnerOf(StakeAccountsOf(u), 4, w), a),
                           "InvalidStakeOwner")
                /\ Refused(process_unstake(PROGRAM_ID, St,
                               OwnerOf(UnstakeAccountsOf(u, DerivedAuthority(u)),
                                       4, w), a),
                           "InvalidStakeOwner")
                /\ Refused(process_claim(PROGRAM_ID, St,
                               OwnerOf(ClaimAccountsOf(u, DerivedAuthority(u)),
                                       3, w)),
                           "InvalidStakeOwner")
    /\ \A u \in UserKeys, p \in PoolKeys, w \in Wallets :
          ~user_data[u].is_initialized =>
             Refused(process_create_stake_user(PROGRAM_ID, St,
                         Unsigned(create_stake_user_accounts(p, u, w), 3)),
                     "InvalidSigner")
    /\ last.op \in {"Stake", "Unstake"} =>
          /\ last.accounts[4].is_signer
          /\ last.accounts[4].key = user_data[last.accounts[2].key].owner
    /\ last.op = "Claim" =>
          /\ last.accounts[3].is_signer
          /\ last.accounts[3].key = user_data[last.accounts[2].key].owner

\* A user with a stake and a reward to claim, and a free stake-user record:
\* the same instructions succeed once the owner signs.
C20_Witness ==
    /\ \E u \in ActiveUsers :
          /\ user_data[u].stake_amount # <<>>
          /\ process_stake(PROGRAM_ID, St, StakeAccountsOf(u), TEN_BILLION).res = "Ok"
          /\ process_unstake(PROGRAM_ID, St,
                 UnstakeAccountsOf(u, DerivedAuthority(u)), TEN_BILLION).res = "Ok"
          /\ ClaimOn(St, u).res = "Ok"
          /\ Refused(process_claim(PROGRAM_ID, St,
                         Unsigned(ClaimAccountsOf(u, DerivedAuthority(u)), 3)),
                     "InvalidSigner")
    /\ \E u \in UserKeys :
          /\ ~user_data[u].is_initialized
          /\ process_create_stake_user(PROGRAM_ID, St,
                 create_stake_user_accounts("poolA", u, "bob")).res = "Ok"
          /\ Refused(process_create_stake_user(PROGRAM_ID, St,
                         Unsigned(create_stake_user_accounts("poolA", u, "bob"), 3)),
                     "InvalidSigner")

\* The outcomes of the Stakes, Unstakes and Claims sent for the stake user u
\* on the ledger: valid ones, ones a precondition refuses (another owner,
\* another pool, an amount the source does not hold), ones whose accrual
\* fails and ones the token service refuses after the record was packed.
StakeProbes(u) ==
    {StakeBy(u, w, a) : w \in Wallets, a \in ProbeAmounts}
        \cup {StakeAt(p, u, a) : p \in LivePools, a \in StakeAmounts}
        \cup {process_stake(PROGRAM_ID, St, Unsigned(StakeAccountsOf(u), 4), a) :
                 a \in StakeAmounts}

UnstakeProbes(u) ==
    {UnstakeFrom(u, source, a) : source \in ProbeReserves, a \in ProbeAmounts}
        \cup {process_unstake(PROGRAM_ID, St, UnstakeAccountsOf(u, f), a) :
                 f \in Addresses, a \in UnstakeAmounts}

ClaimProbes(u) ==
    {process_claim(PROGRAM_ID, St, ClaimAccountsOf(u, f)) : f \in Addresses}
        \cup {ClaimAt(p, u) : p \in LivePools}

\* The reward account of u in which the token service can credit nothing.
FilledFor(u) ==
    Filled(St, RewardToken(user_data[u].owner, user_data[u].pool_pubkey))

\* C21: on the ledger the host leaves after a Stake, an Unstake or a Claim
\* that returned an error, every StakeUser record is as it was before the
\* instruction, whether a precondition, the arithmetic or the token service
\* failed.
C21_FailureKeepsRecord ==
    \A u \in ActiveUsers :
        /\ \A o \in StakeProbes(u) \cup UnstakeProbes(u) \cup ClaimProbes(u) :
              o.res # "Ok" =>
                  do_process_instruction(St, o).user_data = user_data
        /\ ClaimOn(FilledFor(u), u).res # "Ok" =>
              do_process_instruction(FilledFor(u), ClaimOn(FilledFor(u), u))
                  .user_data = user_data

\* The token service refuses the transfer of a Stake and the mint of a
\* Claim after the handler packed the changed record, and the accrual of a
\* Stake in a pool with a zero denominator fails: the buffers of the first
\* two differ from the ledger, which keeps the record.
C21_Witness ==
    /\ \E u \in ActiveUsers, w \in Wallets :
          /\ StakeBy(u, w, TEN_BILLION).res = "TokenTransferFailed"
          /\ StakeBy(u, w, TEN_BILLION).st.user_data[u] # user_data[u]
          /\ ClaimOn(FilledFor(u), u).res = "TokenMintToFailed"
          /\ ClaimOn(FilledFor(u), u).st.user_data[u].reward_owed = <<>>
          /\ user_data[u].reward_owed # <<>>
          /\ do_process_instruction(St, StakeBy(u, w, TEN_BILLION)).user_data[u]
                = user_data[u]
    /\ \E u \in ActiveUsers :
          StakeBy(u, user_data[u].owner, TEN_BILLION).res = "CalculationFailure"

\* C22 as stated: an initialized StakeUser record stays initialized; for
\* every user of an initialized pool a valid Unstake of an amount that is
\* staked and that the reserve holds returns Ok, and a valid Stake of an
\* amount the owner's token account holds returns Ok.
C22_AsStated ==
    /\ [](\A u \in ActiveUsers :
             /\ \A a \in ProbeAmounts :
                   (/\ NLe(a, user_data[u].stake_amount)
                    /\ NLe(a, token_data.tok[
                             pool_data[user_data[u].pool_pubkey].reserved].amount))
                   => UnstakeFrom(u, pool_data[user_data[u].pool_pubkey].reserved,
                                  a).res = "Ok"
             /\ \A a \in StakeAmounts :
                   NLe(a, token_data.tok[StakeToken(user_data[u].owner)].amount)
                   => StakeBy(u, user_data[u].owner, a).res = "Ok")
    /\ [][\A u \in UserKeys :
             user_data[u].is_initialized => user_data'[u].is_initialized]_vars

\* The user u of an initialized pool has a stake on which every accrual
\* from now on fails: the denominator of the pool is zero and the clock is
\* past last_update.
Locked(u) ==
    /\ u \in ActiveUsers
    /\ user_data[u].stake_amount # <<>>
    /\ pool_data[user_data[u].pool_pubkey].reward_denominator = <<>>
    /\ ILe(user_data[u].last_update, clock)
    /\ user_data[u].last_update # clock


\* A locked user stays locked, and each of its valid Stakes, Unstakes and
\* Claims, and the Refresh of its record, fails in the accrual.
LockedStays ==
    /\ [](\A u \in UserKeys :
             Locked(u) =>
                /\ \A a \in ProbeAmounts :
                      /\ StakeBy(u, user_data[u].owner, a).res # "Ok"
                      /\ UnstakeFrom(u, pool_data[user_data[u].pool_pubkey].reserved,
                                     a).res # "Ok"
                /\ ClaimOn(St, u).res = "CalculationFailure"
                /\ RefreshOf(user_data[u].pool_pubkey, <<u>>).res
                      = "CalculationFailure")
    /\ [][\A u \in UserKeys : Locked(u) => Locked(u)']_vars


\* The handler returned an error and left every record as it was.
Failed(o) ==
    /\ o.res # "Ok"
    /\ o.st.pool_data = pool_data
    /\ o.st.user_data = user_data

\* C23 as stated: CreateStakeUser, Stake, Unstake, Claim and Refresh sent
\* with a pool record that is not initialized fail, Stake, Unstake and Claim
\* sent with a stake-user record that is not initialized fail, and none of
\* them changes a record.
C23_AsStated ==
    /\ \A p \in FreePools :
          /\ \A u \in UserKeys, w \in Wallets :
                Failed(process_create_stake_user(PROGRAM_ID, St,
                           create_stake_user_accounts(p, u, w)))
          /\ \A u \in UserKeys, a \in StakeAmounts :
                /\ Failed(StakeAt(p, u, a))
                /\ Failed(UnstakeAt(p, u, a))
                /\ Failed(ClaimAt(p, u))
          /\ \A users \in ProbeUserLists : Failed(RefreshOf(p, users))
    /\ \A u \in UserKeys, p \in PoolKeys, a \in StakeAmounts :
          ~user_data[u].is_initialized =>
             /\ Failed(StakeAt(p, u, a))
             /\ Failed(UnstakeAt(p, u, a))
             /\ Failed(ClaimAt(p, u))


(***************************************************************************)
(* CreateStakeUser as a function of the buffer it is given: the bytes of   *)
(* the free stake-user accounts are drawn, with the is_initialized byte 0. *)
(***************************************************************************)
PriorStakes == {<<>>, TEN_BILLION}

PriorOwed == {<<>>, TEN_MILLION}

PriorUpdates == {I(0), I(DAILY_TS)}

\* What unpack_unchecked reads from a buffer whose first byte is 0.
PriorBuffers ==
    {[DefaultStakeUser EXCEPT !.stake_amount = s, !.reward_owed = r,
                              !.last_update = t] :
        s \in PriorStakes, r \in PriorOwed, t \in PriorUpdates}

InitBuffers ==
    /\ pool_data = [k \in PoolKeys |-> DefaultPool]
    /\ user_data \in [UserKeys -> PriorBuffers]
    /\ token_data = InitTokenData
    /\ clock = I(0)
    /\ last = NoInvocation
    /\ acc = AccIdle
    /\ cod = CodIdle

NextBuffers ==
    \/ \E p \in PoolKeys : CreatePool(p, InitDataOf(p))
    \/ \E p \in PoolKeys, u \in UserKeys : CreateStakeUser(p, u, WalletOf(u))
    \/ \E u \in UserKeys, a \in StakeAmounts :
          Stake(user_data[u].pool_pubkey, u, WalletOf(u), a)
    \/ \E u \in UserKeys, a \in UnstakeAmounts :
          Unstake(user_data[u].pool_pubkey, u, WalletOf(u), a)

SpecBuffers == InitBuffers /\ [][NextBuffers]_vars

\* C24 as stated: right after a successful CreateStakeUser the record it
\* wrote is initialized, names the signing owner and the pool of the
\* instruction, and has stake_amount = 0 and reward_owed = 0.
C24_AsStated ==
    last.op = "CreateStakeUser" =>
        /\ last.accounts[3].is_signer
        /\ user_data[last.accounts[2].key].is_initialized
        /\ user_data[last.accounts[2].key].owner = last.accounts[3].key
        /\ user_data[last.accounts[2].key].pool_pubkey = last.accounts[1].key
        /\ user_data[last.accounts[2].key].stake_amount = <<>>
        /\ user_data[last.accounts[2].key].reward_owed = <<>>


\* The record of the stake user u after the first step of a Stake at the
\* clock of the ledger: last_update set when nothing was staked, the accrual
\* of pool p otherwise.
StakeAccrual(p, u) ==
    IF user_data[u].stake_amount = <<>>
    THEN [user_data[u] EXCEPT !.last_update = clock]
    ELSE update_reward_owed(user_data[u], pool_data[p].reward_numerator,
                            pool_data[p].reward_denominator, clock).self

\* What a successful Stake with the given accounts and amount leaves.
StakeEffect(accounts, amount, p, u) ==
    /\ (user_data[u].stake_amount = <<>> =>
           /\ user_data'[u].last_update = clock
           /\ user_data'[u].reward_owed = user_data[u].reward_owed)
    /\ user_data'[u] =
          [StakeAccrual(p, u) EXCEPT
              !.stake_amount = NAdd(user_data[u].stake_amount, amount)]
    /\ IsU64(user_data'[u].stake_amount)
    /\ \A k \in UserKeys \ {u} : user_data'[k] = user_data[k]
    /\ last'.cpi = <<[call |-> "transfer", source |-> accounts[5].key,
                      destination |-> pool_data[p].reserved, amount |-> amount,
                      authority |-> accounts[3].key]>>
    /\ accounts[3].is_signer
    /\ token_data'.tok[accounts[5].key].amount =
          NSub(token_data.tok[accounts[5].key].amount, amount)
    /\ token_data'.tok[pool_data[p].reserved].amount =
          NAdd(token_data.tok[pool_data[p].reserved].amount, amount)

\* The ledger in which the stake of u is the largest a record can hold.
Maxed(u) == [St EXCEPT !.user_data[u].stake_amount = U64_MAX]

\* C25: a successful Stake sets last_update to the clock and keeps
\* reward_owed when nothing was staked and runs the accrual otherwise, then
\* adds the amount to stake_amount, and asks for one transfer of the amount
\* from the source to the reserve of the pool under the transfer authority
\* of the instruction, which signed; a valid Stake on a record whose
\* stake_amount would pass u64::MAX fails with CalculationFailure.
C25_StakeEffect ==
    /\ [][last'.op = "Stake" =>
             StakeEffect(last'.accounts, last'.data, last'.accounts[1].key,
                         last'.accounts[2].key)]_vars
    /\ [](\A u \in ActiveUsers, a \in StakeAmounts :
             NLe(a, token_data.tok[StakeToken(user_data[u].owner)].amount) =>
                /\ process_stake(PROGRAM_ID, Maxed(u), StakeAccountsOf(u), a).res
                      = "CalculationFailure"
                /\ process_stake(PROGRAM_ID, Maxed(u), StakeAccountsOf(u), a).cpi
                      = <<>>)

\* A Stake has just added a second lot to a stake that earned a reward,
\* under the authority of the owner, who is not the authority of the pool;
\* another user holds tokens to stake.
C25_Witness ==
    /\ last.op = "Stake"
    /\ user_data[last.accounts[2].key].stake_amount = NAdd(TEN_BILLION, TEN_BILLION)
    /\ user_data[last.accounts[2].key].reward_owed # <<>>
    /\ user_data[last.accounts[2].key].last_update = clock
    /\ clock # I(0)
    /\ last.cpi[1].authority = "alice"
    /\ last.cpi[1].authority # Authority(last.accounts[1].key)
    /\ token_data.tok[pool_data[last.accounts[1].key].reserved].amount
          = NAdd(TEN_BILLION, TEN_BILLION)
    /\ \E u \in ActiveUsers :
          /\ NLe(TEN_BILLION, token_data.tok[StakeToken(user_data[u].owner)].amount)
          /\ process_stake(PROGRAM_ID, Maxed(u), StakeAccountsOf(u),
                           TEN_BILLION).res = "CalculationFailure"


\* A Stake of u that is valid but for the source and the destination it
\* names.
StakeFromTo(u, source, destination, amount) ==
    process_stake(PROGRAM_ID, St,
        stake_accounts(user_data[u].pool_pubkey, u, user_data[u].owner,
                       user_data[u].owner, source, destination),
        amount)

\* The reserve of the pool of u and what it holds.
ReserveOf(u) == pool_data[user_data[u].pool_pubkey].reserved

\* C26: a Stake that is valid but for its destination, which is not the
\* reserve of the pool, fails with InvalidTokenAccount; one that is valid
\* but for its source, which is of another mint than the reserve, fails with
\* InvalidTokenMint; one whose source holds less than the amount fails with
\* InsufficientFunds; a valid Unstake whose source, the reserve, holds less
\* than the amount fails with InsufficientLiquidity.  None changes a record
\* or asks for a transfer.
C26_TokenPreconditions ==
    \A u \in ActiveUsers, a \in ProbeAmounts :
        /\ \A d \in TokenKeys \ {ReserveOf(u)} :
              Refused(StakeFromTo(u, StakeToken(user_data[u].owner), d, a),
                      "InvalidTokenAccount")
        /\ Refused(StakeFromTo(u, "alice_other", ReserveOf(u), a),
                   "InvalidTokenMint")
        /\ NLt(token_data.tok[StakeToken(user_data[u].owner)].amount, a) =>
              Refused(StakeFromTo(u, StakeToken(user_data[u].owner),
                                  ReserveOf(u), a),
                      "InsufficientFunds")
        /\ NLt(token_data.tok[ReserveOf(u)].amount, a) =>
              Refused(UnstakeFrom(u, ReserveOf(u), a), "InsufficientLiquidity")

\* A user holds one lot and has staked another: the Stake and the Unstake
\* of one lot would succeed, and each of the four is refused.
C26_Witness ==
    \E u \in ActiveUsers :
        /\ token_data.tok[StakeToken(user_data[u].owner)].amount = TEN_BILLION
        /\ token_data.tok[ReserveOf(u)].amount = TEN_BILLION
        /\ user_data[u].stake_amount = TEN_BILLION
        /\ StakeFromTo(u, StakeToken(user_data[u].owner), ReserveOf(u),
                       TEN_BILLION).res = "Ok"
        /\ UnstakeFrom(u, ReserveOf(u), TEN_BILLION).res = "Ok"
        /\ Refused(StakeFromTo(u, StakeToken(user_data[u].owner), "giftA",
                               TEN_BILLION), "InvalidTokenAccount")
        /\ Refused(StakeFromTo(u, "alice_other", ReserveOf(u), TEN_BILLION),
                   "InvalidTokenMint")
        /\ Refused(StakeFromTo(u, StakeToken(user_data[u].owner), ReserveOf(u),
                               NAdd(TEN_BILLION, TEN_BILLION)),
                   "InsufficientFunds")
        /\ Refused(UnstakeFrom(u, ReserveOf(u), NAdd(TEN_BILLION, TEN_BILLION)),
                   "InsufficientLiquidity")


\* The record of the stake user u after the first step of a Claim or an
\* Unstake: the accrual of pool p when something is staked.
ClaimAccrual(p, u) ==
    IF user_data[u].stake_amount = <<>> THEN Ret("Ok", user_data[u])
    ELSE update_reward_owed(user_data[u], pool_data[p].reward_numerator,
                            pool_data[p].reward_denominator, clock)

\* What a successful Claim with the given accounts leaves.
ClaimEffect(accounts, p, u) ==
    /\ ClaimAccrual(p, u).res = "Ok"
    /\ ClaimAccrual(p, u).self.reward_owed # <<>>
    /\ last'.cpi =
          <<[call |-> "mint_to", mint |-> pool_data[p].reward_mint,
             destination |-> accounts[6].key,
             amount |-> ClaimAccrual(p, u).self.reward_owed,
             authority |-> create_program_address(p, pool_data[p].bump_seed,
                                                  PROGRAM_ID).v]>>
    /\ ~accounts[4].is_signer
    /\ user_data'[u] = [ClaimAccrual(p, u).self EXCEPT !.reward_owed = <<>>]
    /\ \A k \in UserKeys \ {u} : user_data'[k] = user_data[k]
    /\ token_data'.tok[accounts[6].key].mint = pool_data[p].reward_mint
    /\ token_data'.tok[accounts[6].key].amount =
          NAdd(token_data.tok[accounts[6].key].amount,
               ClaimAccrual(p, u).self.reward_owed)

\* C27: a successful Claim runs the accrual when something is staked and
\* asks for exactly one mint_to, of the reward_owed the accrual left, to
\* the destination of the instruction on the reward mint of the pool, under
\* the derived authority of the pool, for which the program signs; a valid
\* Claim for which that amount is 0 fails with InsufficientClaimAmount and
\* asks for no mint, and one for which it is not returns Ok and asks for the
\* mint of that amount.
C27_ClaimEffect ==
    /\ [][last'.op = "Claim" =>
             ClaimEffect(last'.accounts, last'.accounts[1].key,
                         last'.accounts[2].key)]_vars
    /\ [](\A u \in ActiveUsers :
             ClaimAccrual(user_data[u].pool_pubkey, u).res = "Ok" =>
                IF ClaimAccrual(user_data[u].pool_pubkey, u).self.reward_owed = <<>>
                THEN Refused(ClaimOn(St, u), "InsufficientClaimAmount")
                ELSE /\ ClaimOn(St, u).res = "Ok"
                     /\ Len(ClaimOn(St, u).cpi) = 1
                     /\ ClaimOn(St, u).cpi[1].amount =
                           ClaimAccrual(user_data[u].pool_pubkey, u).self.reward_owed)

\* A Claim has just minted the 10^7 its accrual put on the record of a user
\* who stakes 10^10, and the other user, who has staked nothing, has
\* nothing to claim.
C27_Witness ==
    /\ last.op = "Claim"
    /\ clock = I(DAILY_TS)
    /\ last.cpi[1].amount = TEN_MILLION
    /\ token_data.tok[last.accounts[6].key].amount = TEN_MILLION
    /\ user_data[last.accounts[2].key].stake_amount = TEN_BILLION
    /\ user_data[last.accounts[2].key].last_update = clock
    /\ user_data[last.accounts[2].key].reward_owed = <<>>
    /\ \E u \in ActiveUsers :
          /\ user_data[u].stake_amount = <<>>
          /\ Refused(ClaimOn(St, u), "InsufficientClaimAmount")


\* CreatePool of the free pool p with the given authority and InitData, the
\* other accounts being valid.
CreatePoolBy(p, authority, init_data) ==
    process_create_stake_pool(PROGRAM_ID, St,
        create_stake_pool_accounts(p, authority, "stake_mint", Reserve(p),
                                   RewardMint(p)),
        init_data)

\* The records a successful CreatePool with the given accounts and InitData
\* leaves in the ledger st.
CreatedPool(st, accounts, init_data) ==
    /\ Some(accounts[2].key) =
          create_program_address(accounts[1].key, init_data.bump_seed, PROGRAM_ID)
    /\ st.pool_data[accounts[1].key] =
          [is_initialized |-> TRUE, bump_seed |-> init_data.bump_seed,
           stake_token_mint |-> accounts[3].key, reserved |-> accounts[4].key,
           reward_mint |-> accounts[5].key,
           reward_numerator |-> init_data.reward_numerator,
           reward_denominator |-> init_data.reward_denominator]
    /\ st.token_data.tok[accounts[4].key] =
          TokenAccount(accounts[3].key, accounts[2].key, <<>>)
    /\ st.token_data.mint[accounts[5].key] =
          [is_initialized |-> TRUE, mint_authority |-> accounts[2].key]

\* C28: a CreatePool of a free pool returns Ok only when its authority is
\* the address derived from the pool address and the seed of the
\* instruction, and fails with InvalidPoolAuthority, or InvalidSeeds when
\* the seed derives no address, otherwise; after a successful CreatePool
\* the Pool record is initialized and holds the seed, the staking mint, the
\* reserve, the reward mint and the rate of the instruction, the reserve is
\* an empty token account of the staking mint owned by the derived
\* authority, and the reward mint has the derived authority as its mint
\* authority.
C28_CreatePoolEffect ==
    /\ last.op = "CreatePool" => CreatedPool(St, last.accounts, last.data)
    /\ \A p \in FreePools, f \in Addresses, d \in ProbeInitData :
          IF Some(f) = create_program_address(p, d.bump_seed, PROGRAM_ID)
          THEN /\ CreatePoolBy(p, f, d).res = "Ok"
               /\ CreatedPool(CreatePoolBy(p, f, d).st,
                      create_stake_pool_accounts(p, f, "stake_mint", Reserve(p),
                                                 RewardMint(p)), d)
          ELSE Refused(CreatePoolBy(p, f, d),
                       IF create_program_address(p, d.bump_seed, PROGRAM_ID).some
                       THEN "InvalidPoolAuthority" ELSE "InvalidSeeds")

\* Pool B has just been created and pool A is free: its CreatePool returns
\* Ok with seed 254 and the address seed 254 derives, and is refused with
\* that seed and the address seed 255 derives.
C28_Witness ==
    /\ last.op = "CreatePool"
    /\ last.accounts[1].key = "poolB"
    /\ pool_data["poolB"].is_initialized
    /\ token_data.tok["reserveB"].owner = "authB"
    /\ token_data.mint["reward_mintB"].mint_authority = "authB"
    /\ "poolA" \in FreePools
    /\ \E d \in ProbeInitData :
          /\ d.bump_seed = 254
          /\ CreatePoolBy("poolA", "authA_254", d).res = "Ok"
          /\ Refused(CreatePoolBy("poolA", "authA", d), "InvalidPoolAuthority")
          /\ Refused(CreatePoolBy("poolA", "alice", d), "InvalidPoolAuthority")


\* The outcomes of the instructions sent with the pool p on the ledger: a
\* CreatePool with either reserve, either reward mint, any derived
\* authority and any InitData, and the other instructions for any stake
\* user.
PoolProbes(p) ==
    {process_create_stake_pool(PROGRAM_ID, St,
         create_stake_pool_accounts(p, f, "stake_mint", r, m), d) :
        f \in {"authA", "authB", "authA_254"}, r \in {"reserveA", "reserveB"},
        m \in {"reward_mintA", "reward_mintB"}, d \in ProbeInitData}
      \cup {process_create_stake_user(PROGRAM_ID, St,
                create_stake_user_accounts(p, u, w)) :
               u \in UserKeys, w \in Wallets}
      \cup {StakeAt(p, u, a) : u \in UserKeys, a \in StakeAmounts}
      \cup {UnstakeAt(p, u, a) : u \in UserKeys, a \in UnstakeAmounts}
      \cup {ClaimAt(p, u) : u \in UserKeys}
      \cup {RefreshOf(p, users) : users \in ProbeUserLists}

\* C29: no step changes the record of an initialized pool, and on the
\* ledger the host leaves after any CreatePool, CreateStakeUser, Stake,
\* Unstake, Claim or Refresh, whatever pool it is sent with, the record of
\* every initialized pool is as it was.
C29_PoolImmutable ==
    /\ [][\A q \in PoolKeys :
             pool_data[q].is_initialized => pool_data'[q] = pool_data[q]]_vars
    /\ [](\A p \in PoolKeys, q \in LivePools :
             \A o \in PoolProbes(p) :
                 do_process_instruction(St, o).pool_data[q] = pool_data[q])

\* Pool A is initialized, has a staking user and has just been used, pool
\* B is free with its reserve and its reward mint: a CreatePool of pool A
\* naming them is refused, and the CreatePool of pool B and a Stake in pool
\* A succeed.
C29_Witness ==
    /\ last.op \in {"Stake", "Unstake", "Claim", "Refresh"}
    /\ last.accounts[1].key = "poolA"
    /\ "poolA" \in LivePools
    /\ "poolB" \in FreePools
    /\ Refused(process_create_stake_pool(PROGRAM_ID, St,
                   create_stake_pool_accounts("poolA", "authA", "stake_mint",
                                              "reserveB", "reward_mintB"),
                   InitDataOf("poolB")),
               "AlreadyInUse")
    /\ CreatePoolOn(St, "poolB").res = "Ok"
    /\ \E u \in UserKeys : StakeAt("poolA", u, TEN_BILLION).res = "Ok"


\* C30: across every call of update_reward_owed last_update does not
\* decrease, and it changes only in a call that returns Ok at a now greater
\* than the last_update before the call, which then becomes now.
C30_LastUpdateMonotone ==
    \A i \in 1..Len(acc.trail) :
        /\ ILe(acc.trail[i].before.last_update, AccrueAfter(i).last_update)
        /\ AccrueAfter(i).last_update # acc.trail[i].before.last_update =>
              /\ acc.trail[i].res = "Ok"
              /\ AccrueAfter(i).last_update = acc.trail[i].now
              /\ ILe(acc.trail[i].before.last_update, acc.trail[i].now)

\* A call moved last_update forward to its now, and the call after it, at
\* an earlier now, left it there.
C30_Witness ==
    /\ Len(acc.trail) = 2
    /\ acc.trail[1].res = "Ok"
    /\ AccrueAfter(1).last_update = acc.trail[1].now
    /\ AccrueAfter(1).last_update # acc.trail[1].before.last_update
    /\ acc.trail[2].now # acc.trail[2].before.last_update
    /\ ILe(acc.trail[2].now, acc.trail[2].before.last_update)
    /\ acc.trail[2].res = "Ok"
    /\ AccrueAfter(2).last_update = acc.trail[1].now


\* What a step that changed the ledger did to the record of the stake user
\* u: stake_amount moves by the amount of a Stake or an Unstake of u and by
\* nothing else; reward_owed grows only by the accrual of a Stake, an
\* Unstake or a Refresh on a record with a stake, and falls only to 0, in a
\* Claim of u; with nothing staked, an Unstake, a Claim and a Refresh leave
\* last_update, and reward_owed but for the zeroing of the Claim.
Accumulators(u) ==
    /\ user_data'[u].stake_amount # user_data[u].stake_amount =>
          /\ last'.op \in {"Stake", "Unstake"}
          /\ last'.accounts[2].key = u
          /\ user_data'[u].stake_amount =
                IF last'.op = "Stake"
                THEN NAdd(user_data[u].stake_amount, last'.data)
                ELSE NSub(user_data[u].stake_amount, last'.data)
    /\ NLt(user_data[u].reward_owed, user_data'[u].reward_owed) =>
          /\ last'.op \in {"Stake", "Unstake", "Refresh"}
          /\ user_data[u].stake_amount # <<>>
          /\ user_data'[u].reward_owed =
                ClaimAccrual(last'.accounts[1].key, u).self.reward_owed
    /\ NLt(user_data'[u].reward_owed, user_data[u].reward_owed) =>
          /\ last'.op = "Claim"
          /\ last'.accounts[2].key = u
          /\ user_data'[u].reward_owed = <<>>
    /\ (last'.op = "Claim" /\ last'.accounts[2].key = u) =>
          user_data'[u].reward_owed = <<>>
    /\ (user_data[u].stake_amount = <<>>
        /\ last'.op \in {"Unstake", "Claim", "Refresh"}) =>
          /\ user_data'[u].last_update = user_data[u].last_update
          /\ ~NLt(user_data[u].reward_owed, user_data'[u].reward_owed)

\* The record of u in the buffers the handler hands back has the
\* last_update of the ledger and no more reward_owed.
AccrualUntouched(o, u) ==
    /\ o.st.user_data[u].last_update = user_data[u].last_update
    /\ o.st.user_data[u].stake_amount = user_data[u].stake_amount
    /\ o.st.user_data[u].reward_owed \in {user_data[u].reward_owed, <<>>}

\* C31: every step treats stake_amount and reward_owed as separate
\* accumulators, and an Unstake of 0, a Claim and a Refresh for a record
\* with nothing staked run no accrual on it: last_update stays, and
\* reward_owed stays or, in the Claim, becomes 0.
C31_Accumulators ==
    /\ [][\A u \in UserKeys : Accumulators(u)]_vars
    /\ [](\A u \in ActiveUsers :
             user_data[u].stake_amount = <<>> =>
                /\ UnstakeFrom(u, ReserveOf(u), <<>>).res = "Ok"
                /\ AccrualUntouched(UnstakeFrom(u, ReserveOf(u), <<>>), u)
                /\ UnstakeFrom(u, ReserveOf(u), <<>>).st.user_data[u].reward_owed
                      = user_data[u].reward_owed
                /\ AccrualUntouched(ClaimOn(St, u), u)
                /\ \A users \in ProbeUserLists :
                      RefreshOf(user_data[u].pool_pubkey, users).st.user_data[u]
                         = user_data[u])

\* A Refresh at a later clock has just accrued a reward on the record of a
\* user with a stake and left the record of a user of the same pool who has
\* nothing staked, whose last_update is before the clock.
C31_Witness ==
    /\ last.op = "Refresh"
    /\ Len(last.accounts) = 4
    /\ \E u \in ActiveUsers, v \in ActiveUsers :
          /\ user_data[u].pool_pubkey = last.accounts[1].key
          /\ user_data[v].pool_pubkey = last.accounts[1].key
          /\ user_data[u].stake_amount # <<>>
          /\ user_data[u].reward_owed # <<>>
          /\ user_data[u].last_update = clock
          /\ user_data[v].stake_amount = <<>>
          /\ user_data[v].last_update # clock


(***************************************************************************)
(* Sequences of instructions from a ledger of the model on: the clock      *)
(* sysvar is set, the handler runs, and the host keeps what it wrote.      *)
(***************************************************************************)
\* Clock values after the first day.
GapTimes == {DAILY_TS, DAILY_TS + 43200, 2 * DAILY_TS, 3 * DAILY_TS}

AtClock(st, t) == [st EXCEPT !.clock = I(t)]

\* The ledger after a valid Unstake of everything u has staked, after a
\* valid Stake of amount, and after a Refresh of the record of u.
UnstakeAllOn(st, u) ==
    process_unstake(PROGRAM_ID, st, UnstakeAccountsOf(u, DerivedAuthority(u)),
                    st.user_data[u].stake_amount)

StakeOn(st, u, amount) == process_stake(PROGRAM_ID, st, StakeAccountsOf(u), amount)

RefreshOn(st, u) ==
    process_refresh(PROGRAM_ID, st,
        refresh_accounts(user_data[u].pool_pubkey, <<u>>))

\* u unstakes everything at t1: the ledger the host keeps.
Emptied(u, t1) ==
    do_process_instruction(AtClock(St, t1), UnstakeAllOn(AtClock(St, t1), u))

\* u then stakes one lot at t2 on the ledger e.
Restaked(e, u, t2) ==
    do_process_instruction(AtClock(e, t2), StakeOn(AtClock(e, t2), u, TEN_BILLION))

\* The record of u is then refreshed at t3 on the ledger r.
Reaccrued(r, u, t3) ==
    do_process_instruction(AtClock(r, t3), RefreshOn(AtClock(r, t3), u))

\* The users with a stake in a pool whose rate has a denominator.
Earning ==
    {u \in ActiveUsers :
        /\ user_data[u].stake_amount # <<>>
        /\ pool_data[user_data[u].pool_pubkey].reward_denominator # <<>>}

\* The reward of one lot in the pool of u over the given number of seconds.
LotReward(u, seconds) ==
    ExactDelta(pool_data[user_data[u].pool_pubkey].reward_numerator, TEN_BILLION,
               pool_data[user_data[u].pool_pubkey].reward_denominator, I(seconds))

\* e: the ledger after the Unstake at t1; r: after the Stake at t2; r0:
\* after the Stake had it been at t1.
GapAccrued(u, t1, t2, t3, e, r, r0) ==
    /\ StakeOn(AtClock(e, t2), u, TEN_BILLION).res = "Ok"
    /\ RefreshOn(AtClock(r, t3), u).res = "Ok"
    /\ r.user_data[u].reward_owed = e.user_data[u].reward_owed
    /\ r.user_data[u].stake_amount = TEN_BILLION
    /\ Reaccrued(r, u, t3).user_data[u].reward_owed =
          NAdd(e.user_data[u].reward_owed, LotReward(u, t3 - t2))
    /\ Reaccrued(r, u, t3).user_data[u].reward_owed =
          Reaccrued(r0, u, t1 + (t3 - t2)).user_data[u].reward_owed

GapRuns(u, t1, t2, t3, e) ==
    /\ UnstakeAllOn(AtClock(St, t1), u).res = "Ok"
    /\ e.user_data[u].stake_amount = <<>>
    /\ GapAccrued(u, t1, t2, t3, e, Restaked(e, u, t2), Restaked(e, u, t1))

\* C32: a user with a stake unstakes it all at t1, stakes 10^10 at t2 > t1
\* and is refreshed at t3 > t2.  The three succeed; the Stake leaves the
\* reward_owed the Unstake left; the Refresh adds the reward of 10^10 over
\* t3 - t2; and reward_owed is what it is when the Stake is at t1 and the
\* Refresh t3 - t2 later.
C32_NoRewardWhileEmpty ==
    \A u \in Earning :
        \A t1 \in GapTimes, t2 \in GapTimes, t3 \in GapTimes :
            (ILe(clock, I(t1)) /\ t1 < t2 /\ t2 < t3) =>
                GapRuns(u, t1, t2, t3, Emptied(u, t1))

\* A user who staked at clock 0 unstakes at 86400 with a reward of 10^7,
\* stakes again a day later and is refreshed half a day after that: the
\* reward is 10^7 + 5 * 10^6, not that of the two days and a half.
C32_Witness ==
    \E u \in Earning :
        /\ clock = I(DAILY_TS)
        /\ user_data[u].last_update = I(0)
        /\ user_data[u].stake_amount = TEN_BILLION
        /\ GapRuns(u, DAILY_TS, 2 * DAILY_TS, 2 * DAILY_TS + 43200,
                   Emptied(u, DAILY_TS))
        /\ Emptied(u, DAILY_TS).user_data[u].reward_owed = TEN_MILLION
        /\ Restaked(Emptied(u, DAILY_TS), u, 2 * DAILY_TS).user_data[u].last_update
              = I(2 * DAILY_TS)
        /\ Reaccrued(Restaked(Emptied(u, DAILY_TS), u, 2 * DAILY_TS), u,
                     2 * DAILY_TS + 43200).user_data[u].reward_owed
              = NAdd(TEN_MILLION, <<0, 500>>)


\* The reward_owed and the last_update the handler left on the record of u
\* are those of the accrual on the stake the record held, or those of the
\* record when nothing was staked (last_update aside, which a Stake sets).
RewardAdded(o, u) ==
    o.res = "Ok" =>
        /\ o.st.user_data[u].reward_owed =
              ClaimAccrual(user_data[u].pool_pubkey, u).self.reward_owed
        /\ user_data[u].stake_amount # <<>> =>
              o.st.user_data[u].last_update =
                 ClaimAccrual(user_data[u].pool_pubkey, u).self.last_update

\* C33: the reward_owed and the last_update a successful Stake or Unstake
\* leaves are those of the accrual run on the stake_amount the record held
\* before the instruction, whatever the amount: a Stake, or an Unstake, of
\* any amount leaves the reward_owed that the one of a single base unit
\* leaves on the same ledger.
C33_AccrualBeforeAmount ==
    \A u \in ActiveUsers :
        /\ \A a \in ProbeAmounts :
              /\ RewardAdded(StakeBy(u, user_data[u].owner, a), u)
              /\ RewardAdded(UnstakeFrom(u, ReserveOf(u), a), u)
        /\ \A a \in ProbeAmounts :
              /\ (/\ StakeBy(u, user_data[u].owner, a).res = "Ok"
                  /\ StakeBy(u, user_data[u].owner, ONE).res = "Ok") =>
                    StakeBy(u, user_data[u].owner, a).st.user_data[u].reward_owed
                       = StakeBy(u, user_data[u].owner, ONE).st.user_data[u].reward_owed
              /\ (/\ UnstakeFrom(u, ReserveOf(u), a).res = "Ok"
                  /\ UnstakeFrom(u, ReserveOf(u), ONE).res = "Ok") =>
                    UnstakeFrom(u, ReserveOf(u), a).st.user_data[u].reward_owed
                       = UnstakeFrom(u, ReserveOf(u), ONE).st.user_data[u].reward_owed

\* A day after staking 10^10 a user stakes, or unstakes, 1 or 10^10: each
\* of the four adds the 10^7 the 10^10 earned.
C33_Witness ==
    \E u \in ActiveUsers :
        /\ user_data[u].stake_amount = TEN_BILLION
        /\ user_data[u].reward_owed = <<>>
        /\ user_data[u].last_update = I(0)
        /\ clock = I(DAILY_TS)
        /\ \A a \in {ONE, TEN_BILLION} :
              /\ StakeBy(u, user_data[u].owner, a).res = "Ok"
              /\ StakeBy(u, user_data[u].owner, a).st.user_data[u].reward_owed
                    = TEN_MILLION
              /\ UnstakeFrom(u, ReserveOf(u), a).res = "Ok"
              /\ UnstakeFrom(u, ReserveOf(u), a).st.user_data[u].reward_owed
                    = TEN_MILLION


\* C34: no step lowers the last_update of a StakeUser record, and no
\* last_update is past the clock.
C34_LastUpdateBounded ==
    /\ [][\A u \in UserKeys :
             ILe(user_data[u].last_update, user_data'[u].last_update)]_vars
    /\ [](\A u \in UserKeys : ILe(user_data[u].last_update, clock))

\* After the clock moved on, an instruction has just brought the
\* last_update of a staking user to the clock, while that of another, who
\* staked before, is still behind it.
C34_Witness ==
    /\ last.op \in {"Stake", "Unstake", "Claim", "Refresh"}
    /\ clock # I(0)
    /\ \E u \in ActiveUsers, v \in ActiveUsers :
          /\ user_data[u].stake_amount # <<>>
          /\ user_data[u].last_update = clock
          /\ user_data[v].stake_amount # <<>>
          /\ user_data[v].last_update = I(0)


\* The record r has the owner, the pool and the initialized flag of the
\* record of u in the ledger.
SameIdentity(r, u) ==
    /\ r.is_initialized = user_data[u].is_initialized
    /\ r.owner = user_data[u].owner
    /\ r.pool_pubkey = user_data[u].pool_pubkey

\* C35: no step changes the owner, the pool or the initialized flag of an
\* initialized StakeUser record, and the buffers every Stake, Unstake,
\* Claim and Refresh hands back, failed or not, hold them as they were.
C35_IdentityKept ==
    /\ [][\A u \in UserKeys :
             user_data[u].is_initialized => SameIdentity(user_data'[u], u)]_vars
    /\ [](\A u \in ActiveUsers :
             /\ \A o \in StakeProbes(u) \cup UnstakeProbes(u) \cup ClaimProbes(u) :
                   \A k \in UserKeys : SameIdentity(o.st.user_data[k], k)
             /\ \A users \in ProbeUserLists, k \in UserKeys :
                   SameIdentity(RefreshOf(user_data[u].pool_pubkey, users)
                                    .st.user_data[k], k))

\* A user has just unstaked everything after a day: the record has no
\* stake, a reward, and the owner and the pool it was created with.
C35_Witness ==
    /\ last.op = "Unstake"
    /\ user_data[last.accounts[2].key].stake_amount = <<>>
    /\ user_data[last.accounts[2].key].reward_owed # <<>>
    /\ user_data[last.accounts[2].key].is_initialized
    /\ user_data[last.accounts[2].key].owner = last.accounts[4].key
    /\ user_data[last.accounts[2].key].pool_pubkey = last.accounts[1].key


\* The account list instruction::claim lays out: pool, stake user, pool
\* authority, reward mint, destination, clock, token program.  It takes no
\* stake owner, and none of its accounts signs.
instruction_claim(stake_pool_pubkey, stake_user_pubkey, authority_pubkey, reward_token_mint_pubkey, destination_pubkey) ==
    <<Acct(stake_pool_pubkey, FALSE), Acct(stake_user_pubkey, FALSE),
      Acct(authority_pubkey, FALSE), Acct(reward_token_mint_pubkey, FALSE),
      Acct(destination_pubkey, FALSE), Acct(CLOCK_SYSVAR, FALSE),
      Acct(TOKEN_PROGRAM, FALSE)>>

\* The Claim a client builds for the stake-user account u.
BuiltClaim(u) ==
    instruction_claim(user_data[u].pool_pubkey, u,
                      Authority(user_data[u].pool_pubkey),
                      RewardMint(user_data[u].pool_pubkey),
                      RewardToken(user_data[u].owner, user_data[u].pool_pubkey))

\* The errors a handler raises while it takes its accounts off the list.
ListErrors == {"NotEnoughAccountKeys", "InvalidArgument"}

\* The lists the builders of the other five commands lay out are consumed
\* whole by their handlers: no handler runs out of accounts or finds another
\* account where it reads a sysvar.
BuildersConsumed ==
    /\ \A p \in PoolKeys :
          process_create_stake_pool(PROGRAM_ID, St,
              create_stake_pool_accounts(p, Authority(p), "stake_mint",
                                         Reserve(p), RewardMint(p)),
              InitDataOf(p)).res \notin ListErrors
    /\ \A p \in PoolKeys, u \in UserKeys :
          /\ process_create_stake_user(PROGRAM_ID, St,
                 create_stake_user_accounts(p, u, WalletOf(u))).res
                 \notin ListErrors
          /\ process_stake(PROGRAM_ID, St,
                 stake_accounts(p, u, WalletOf(u), WalletOf(u),
                                StakeToken(WalletOf(u)), Reserve(p)),
                 TEN_BILLION).res \notin ListErrors
          /\ process_unstake(PROGRAM_ID, St,
                 unstake_accounts(p, u, Authority(p), WalletOf(u), Reserve(p),
                                  StakeToken(WalletOf(u))),
                 TEN_BILLION).res \notin ListErrors
    /\ \A p \in PoolKeys, users \in UserLists :
          process_refresh(PROGRAM_ID, St, refresh_accounts(p, users)).res
              \notin ListErrors

\* C36: the account list built by claim has the eight accounts process_claim
\* takes, with the stake owner third and signing, so that the handler gets
\* past its owner and signer checks on a built Claim; the lists of the other
\* five builders are consumed whole by their handlers.
C36_AsStated ==
    /\ BuildersConsumed
    /\ \A u \in ActiveUsers :
          /\ Len(BuiltClaim(u)) = 8
          /\ BuiltClaim(u)[3].key = user_data[u].owner
          /\ BuiltClaim(u)[3].is_signer
          /\ process_claim(PROGRAM_ID, St, BuiltClaim(u)).res
                 \notin ListErrors \cup {"InvalidStakeOwner", "InvalidSigner"}


(***************************************************************************)
(* The instruction encoding as a function of the command: a command is     *)
(* drawn, packed, and the packed bytes are unpacked again.                 *)
(***************************************************************************)
WireSeeds == {0, 1, 255}

WireRates == {<<>>, ONE, N(1000), U64_MAX}

WireAmounts == {<<>>, ONE, N(256), TEN_BILLION, I64_MIN.mag, U64_MAX}

\* The commands drawn: CreatePool with each seed and each pair of rates,
\* Stake and Unstake with each amount, and the three without a payload.
WirePools ==
    {Instruction("CreatePool",
                 [bump_seed |-> s, reward_numerator |-> n,
                  reward_denominator |-> d]) :
        s \in WireSeeds, n \in WireRates, d \in WireRates}

WireStakes == {Instruction(t, a) : t \in {"Stake", "Unstake"}, a \in WireAmounts}

WirePlain == {Instruction(t, <<>>) : t \in {"CreateStakeUser", "Claim", "Refresh"}}

WireDrawn(c) ==
    cod = [phase |-> "drawn", command |-> c, bytes |-> <<>>,
           decoded |-> Fetched("None", NoInstruction)]

InitWire ==
    /\ InitProgram
    /\ acc = AccIdle
    /\ \/ \E c \in WirePools : WireDrawn(c)
       \/ \E c \in WireStakes : WireDrawn(c)
       \/ \E c \in WirePlain : WireDrawn(c)

WirePack ==
    /\ cod.phase = "drawn"
    /\ cod' = [cod EXCEPT !.phase = "packed",
                          !.bytes = InstructionType_pack(cod.command)]
    /\ UNCHANGED <<pool_data, user_data, token_data, clock, last, acc>>

WireUnpack ==
    /\ cod.phase = "packed"
    /\ cod' = [cod EXCEPT !.phase = "unpacked",
                          !.decoded = InstructionType_unpack(cod.bytes)]
    /\ UNCHANGED <<pool_data, user_data, token_data, clock, last, acc>>

NextWire == WirePack \/ WireUnpack

SpecWire == InitWire /\ [][NextWire]_vars

\* 256^k.
RECURSIVE Pow256(_)
Pow256(k) == IF k = 0 THEN ONE ELSE NMulLimb(Pow256(k - 1), 256)

\* The tag and the length of the encoding of each command.
WireTag(type) ==
    CASE type = "CreatePool" -> 1
      [] type = "CreateStakeUser" -> 2
      [] type = "Stake" -> 3
      [] type = "Unstake" -> 4
      [] type = "Claim" -> 5
      [] type = "Refresh" -> 6

WireLength(type) ==
    IF type = "CreatePool" THEN 18
    ELSE IF type \in {"Stake", "Unstake"} THEN 9
    ELSE 1

\* bytes is the tag of c followed by the fields of c, each least
\* significant byte first.
WireLayout(bytes, c) ==
    /\ Len(bytes) = WireLength(c.type)
    /\ \A i \in 1..Len(bytes) : bytes[i] \in 0..255
    /\ bytes[1] = WireTag(c.type)
    /\ c.type = "CreatePool" =>
          /\ bytes[2] = c.data.bump_seed
          /\ \A k \in 1..8 :
                /\ bytes[2 + k] = NSmall(NDivMod(NDivMod(c.data.reward_numerator, Pow256(k - 1)).q, <<256>>).r)
                /\ bytes[10 + k] = NSmall(NDivMod(NDivMod(c.data.reward_denominator, Pow256(k - 1)).q, <<256>>).r)
    /\ c.type \in {"Stake", "Unstake"} =>
          \A k \in 1..8 :
             bytes[1 + k] = NSmall(NDivMod(NDivMod(c.data, Pow256(k - 1)).q, <<256>>).r)

\* C37: the packed form of every command is its tag followed by its payload
\* with the least significant byte first, 18 bytes for CreatePool, 9 for
\* Stake and Unstake and 1 for the others, and unpacking the packed form
\* yields the command that was packed.
C37_WireRoundTrip ==
    /\ cod.phase \in {"packed", "unpacked"} => WireLayout(cod.bytes, cod.command)
    /\ cod.phase = "unpacked" =>
          /\ cod.decoded.res = "Ok"
          /\ cod.decoded.v.type = cod.command.type
          /\ cod.decoded.v.data = cod.command.data

\* A Stake of 10^10 = 0x02540BE400 was packed into its nine bytes and read
\* back.
C37_Witness ==
    /\ cod.phase = "unpacked"
    /\ cod.command.type = "Stake"
    /\ cod.command.data = TEN_BILLION
    /\ cod.bytes = <<3, 0, 228, 11, 84, 2, 0, 0, 0>>
    /\ cod.decoded.v.data = TEN_BILLION

====
